---- MODULE Spec2Model ----
(***************************************************************************)
(* Model of the error-normalization subsystem of django_tools:             *)
(*   src/src/django_tools/errors/types.py      ErrorItem                    *)
(*   src/src/django_tools/errors/container.py  Errors                       *)
(*   src/src/django_tools/errors/mixins.py     NormalizeErrorsMixin         *)
(*   src/src/django_tools/errors/utils.py      extract_http_error_payload   *)
(*   src/src/django_tools/errors/exceptions.py ApiError                     *)
(*                                                                         *)
(* Python objects with identity (ErrorItem, Errors, ApiError) live in      *)
(* heaps indexed by object id; a container holds the ids of its items, so  *)
(* that two containers may share one item object, as they do in Python.    *)
(***************************************************************************)
EXTENDS Integers, Sequences, FiniteSets, TLC

VARIABLES
    items,    \* heap of ErrorItem objects: id -> field values and fields_set
    bags,     \* heap of Errors objects: id -> its root list (ErrorItem ids)
    apis,     \* heap of ApiError objects: id -> class name and id of _errors
    last,     \* the last call: operation, arguments, state before, result
    env       \* the workflow scripts' surroundings: the configuration file
              \* and the commands run so far

vars == <<items, bags, apis, last, env>>

\* no configuration file
NoFile == [t |-> "nofile"]

\* the surroundings before any workflow script ran
NoEnv == [config_file |-> NoFile, log |-> <<>>]

----------------------------------------------------------------------------
(* Python values.  Every value is a record tagged with its type; values of *)
(* different types have different fields and are never equal.              *)

Str(s) == [t |-> "str", s |-> s]
Num(n) == [t |-> "int", n |-> n]
NoneV == [t |-> "none"]
Bool(b) == [t |-> "bool", b |-> b]
List(l) == [t |-> "list", l |-> l]
Tuple(l) == [t |-> "tuple", l |-> l]
\* a dict is its sequence of <<key, value>> pairs in insertion order
Dict(kv) == [t |-> "dict", kv |-> kv]
\* a Mapping that is not a dict (types.MappingProxyType), same representation
Mapping(kv) == [t |-> "mapping", kv |-> kv]
\* an exception of class cls that is none of the recognised kinds; str(e) = s
Exc(cls, s) == [t |-> "exc", cls |-> cls, s |-> s]
\* an arbitrary object whose str() is s
Obj(s) == [t |-> "obj", s |-> s]
\* references to heap objects
ItemRef(i) == [t |-> "item", id |-> i]
ErrorsRef(b) == [t |-> "errors", id |-> b]
ApiRef(a) == [t |-> "apierr", id |-> a]
\* the three heaps together
Heap(hi, hb, ha) == [items |-> hi, bags |-> hb, apis |-> ha]
\* a validation error: whether its attribute errors is callable, the records
\* errors() returns, and its str()
ValErr(callable, recs, s) ==
    [t |-> "valerr", cls |-> "ValidationError", callable |-> callable, recs |-> recs, s |-> s]
\* an HTTP error: exc.args and str(exc)
HttpErr(args, s) == [t |-> "httperr", cls |-> "HttpError", args |-> args, s |-> s]

EmptyDict == Dict(<<>>)

\* dict operations
Keys(d) == {d.kv[i][1] : i \in 1..Len(d.kv)}
Has(d, k) == k \in Keys(d)
Get(d, k) == IF Has(d, k)
             THEN d.kv[CHOOSE i \in 1..Len(d.kv) : d.kv[i][1] = k][2]
             ELSE NoneV

\* bool(v)
Truthy(v) ==
    CASE v.t = "none" -> FALSE
      [] v.t = "str" -> v.s # ""
      [] v.t = "int" -> v.n # 0
      [] v.t = "bool" -> v.b
      [] v.t \in {"list", "tuple"} -> Len(v.l) > 0
      [] v.t \in {"dict", "mapping"} -> Len(v.kv) > 0
      [] OTHER -> TRUE

RECURSIVE JoinStr(_, _)
JoinStr(ss, sep) ==
    IF Len(ss) = 0 THEN ""
    ELSE IF Len(ss) = 1 THEN ss[1]
    ELSE ss[1] \o sep \o JoinStr(Tail(ss), sep)

\* Errors.messages
messages(h, b) == [i \in 1..Len(h.bags[b]) |-> h.items[h.bags[b][i]].message]

\* a bug: the whole dotted module path instead of its last segment
full_module(module) == JoinStr(module, ".")

\* "self.__class__.__module__.split(".")[-1]"; a module is the sequence of the
\* segments of its dotted path
short_module(module) == module[Len(module)]

\* ApiError.message of the ApiError object a
ApiError_message(h, a) ==
    LET msgs == messages(h, h.apis[a].errors) IN
    IF Len(msgs) > 0 THEN msgs[1].s
    ELSE short_module(h.apis[a].module) \o "." \o h.apis[a].cls

\* ApiError.__str__
ApiError_str(h, a) == ApiError_message(h, a)

\* repr(v) and str(v) of a value over the heaps h
RECURSIVE PyRepr(_, _)
PyStr(h, v) ==
    CASE v.t = "str" -> v.s
      [] v.t \in {"exc", "obj", "valerr", "httperr"} -> v.s
      [] v.t = "item" ->
            LET e == h.items[v.id] IN
            "message=" \o PyRepr(h, e.message) \o " field=" \o PyRepr(h, e.field)
            \o " code=" \o PyRepr(h, e.code) \o " item=" \o PyRepr(h, e.item)
            \o " meta=" \o PyRepr(h, e.meta)
      [] v.t = "errors" ->
            "root=[" \o JoinStr([i \in 1..Len(h.bags[v.id]) |->
                                    PyRepr(h, ItemRef(h.bags[v.id][i]))], ", ") \o "]"
      [] v.t = "apierr" ->
            ApiError_str(h, v.id)
      [] v.t = "mapping" -> PyRepr(h, Dict(v.kv))
      [] OTHER -> PyRepr(h, v)

PyRepr(h, v) ==
    CASE v.t = "str" -> "'" \o v.s \o "'"
      [] v.t = "int" -> ToString(v.n)
      [] v.t = "none" -> "None"
      [] v.t = "bool" -> IF v.b THEN "True" ELSE "False"
      [] v.t = "list" ->
            "[" \o JoinStr([i \in 1..Len(v.l) |-> PyRepr(h, v.l[i])], ", ") \o "]"
      [] v.t = "tuple" ->
            IF Len(v.l) = 1 THEN "(" \o PyRepr(h, v.l[1]) \o ",)"
            ELSE "(" \o JoinStr([i \in 1..Len(v.l) |-> PyRepr(h, v.l[i])], ", ") \o ")"
      [] v.t = "dict" ->
            "{" \o JoinStr([i \in 1..Len(v.kv) |->
                              "'" \o v.kv[i][1] \o "': " \o PyRepr(h, v.kv[i][2])], ", ")
            \o "}"
      [] v.t = "mapping" -> "mappingproxy(" \o PyRepr(h, Dict(v.kv)) \o ")"
      [] v.t \in {"exc", "valerr"} -> v.cls \o "('" \o v.s \o "')"
      [] v.t = "httperr" ->
            v.cls \o "(" \o JoinStr([i \in 1..Len(v.args) |-> PyRepr(h, v.args[i])], ", ")
            \o ")"
      [] v.t = "obj" -> v.s
      [] v.t = "item" -> "ErrorItem(" \o
            LET e == h.items[v.id] IN
            "message=" \o PyRepr(h, e.message) \o ", field=" \o PyRepr(h, e.field)
            \o ", code=" \o PyRepr(h, e.code) \o ", item=" \o PyRepr(h, e.item)
            \o ", meta=" \o PyRepr(h, e.meta) \o ")"
      [] v.t = "errors" -> "Errors(" \o PyStr(h, v) \o ")"
      [] v.t = "apierr" -> h.apis[v.id].cls \o "()"

----------------------------------------------------------------------------
(* Results of calls that allocate: the heaps after the call and the value  *)
(* returned, or raised = TRUE when the call ends in an exception.          *)

Ok(h, ret) == [raised |-> FALSE, h |-> h, ret |-> ret]
Raise(h) == [raised |-> TRUE, h |-> h, ret |-> 0]

FieldNames == {"message", "field", "code", "item", "meta"}

\* keyword arguments as a dict
Kw1(k1, v1) == Dict(<< <<k1, v1>> >>)
Kw2(k1, v1, k2, v2) == Dict(<< <<k1, v1>>, <<k2, v2>> >>)

\* error.get(k, default)
GetDefault(d, k, default) == IF Has(d, k) THEN Get(d, k) ELSE default

\* ErrorItem's field declarations: message: str (required), field: str | None,
\* code: int | None, item: int | None, meta: dict.  Arguments of another type
\* make the constructor raise pydantic's ValidationError.
ValidItemArgs(kw) ==
    /\ Has(kw, "message") /\ Get(kw, "message").t = "str"
    /\ Has(kw, "field") => Get(kw, "field").t \in {"str", "none"}
    /\ Has(kw, "code") => Get(kw, "code").t \in {"int", "none"}
    /\ Has(kw, "item") => Get(kw, "item").t \in {"int", "none"}
    /\ Has(kw, "meta") => Get(kw, "meta").t = "dict"

\* the object ErrorItem(**kw) builds: absent fields take their defaults, keys
\* that are no field are ignored, fset is the set of fields given explicitly
ErrorItem(kw) ==
    [message |-> Get(kw, "message"),
     field |-> Get(kw, "field"),
     code |-> Get(kw, "code"),
     item |-> Get(kw, "item"),
     meta |-> IF Has(kw, "meta") THEN Get(kw, "meta") ELSE EmptyDict,
     fset |-> Keys(kw) \cap FieldNames]

NewItem(h, kw) ==
    IF ValidItemArgs(kw)
    THEN Ok([h EXCEPT !.items = Append(@, ErrorItem(kw))], Len(h.items) + 1)
    ELSE Raise(h)

\* [ErrorItem(**kw) for kw in kws]: the ids of the new items, in order
RECURSIVE NewItems(_, _, _)
NewItems(h, kws, acc) ==
    IF Len(kws) = 0 THEN Ok(h, acc)
    ELSE LET rest(r) == IF r.raised THEN Raise(h)
                        ELSE NewItems(r.h, Tail(kws), Append(acc, r.ret))
         IN  rest(NewItem(h, Head(kws)))

\* Errors(root=ids): a new container with a new list holding the same item objects
NewErrors(h, ids) == Ok([h EXCEPT !.bags = Append(@, ids)], Len(h.bags) + 1)

\* Errors(root=[ErrorItem(**kw) for kw in kws])
ErrorsOf(h, kws) ==
    LET root(r) == IF r.raised THEN Raise(h) ELSE NewErrors(r.h, r.ret)
    IN  root(NewItems(h, kws, <<>>))

\* the elements s[i] of s with keep[i], in order
RECURSIVE SelectIdx(_, _)
SelectIdx(s, keep) ==
    IF Len(s) = 0 THEN <<>>
    ELSE (IF keep[1] THEN <<s[1]>> ELSE <<>>)
         \o SelectIdx(Tail(s), Tail(keep))

\* whether "for x in v" works, and the elements it yields
Iterable(v) == v.t \in {"list", "tuple", "dict", "mapping", "errors"}
IterOf(h, v) ==
    CASE v.t \in {"list", "tuple"} -> v.l
      [] v.t \in {"dict", "mapping"} -> [i \in 1..Len(v.kv) |-> Str(v.kv[i][1])]
      [] v.t = "errors" -> [i \in 1..Len(h.bags[v.id]) |-> ItemRef(h.bags[v.id][i])]

\* a bug: the second argument kept as the payload whatever its type
extract_raw_payload(h, exc) ==
    IF Len(exc.args) > 1 THEN exc.args[2]
    ELSE IF Len(exc.args) > 0 /\ exc.args[1].t = "dict" THEN exc.args[1]
    ELSE IF Len(exc.args) > 0 THEN Str(PyStr(h, exc.args[1]))
    ELSE Str(PyStr(h, exc))

\* a bug: the payload taken from the first argument, the status
extract_first_arg(h, exc) ==
    IF Len(exc.args) > 0
    THEN (IF exc.args[1].t \in {"str", "dict"} THEN exc.args[1]
          ELSE Str(PyStr(h, exc.args[1])))
    ELSE Str(PyStr(h, exc))

\* utils.extract_http_error_payload
extract_http_error_payload(h, exc) ==
    IF Len(exc.args) > 1
    THEN (IF exc.args[2].t \in {"str", "dict"} THEN exc.args[2]
          ELSE Str(PyStr(h, exc.args[2])))
    ELSE IF Len(exc.args) > 0 /\ exc.args[1].t = "dict" THEN exc.args[1]
    ELSE IF Len(exc.args) > 0 THEN Str(PyStr(h, exc.args[1]))
    ELSE Str(PyStr(h, exc))

\* a bug: "if "msg" in err", which keeps a record whose msg is empty
has_msg_key(err) == Has(err, "msg")

\* "if err.get("msg")": records without a message are filtered out
has_msg(err) == Truthy(Get(err, "msg"))

\* NormalizeErrorsMixin._from_validation_error
from_validation_error(h, exc) ==
    LET errors == IF exc.callable /\ Len(exc.recs) > 0 THEN exc.recs ELSE <<>>
        keep == [i \in 1..Len(errors) |-> has_msg(errors[i])]
        locs(err) == IF Has(err, "loc") THEN Get(err, "loc").l ELSE <<>>
        joined(err) == JoinStr([j \in 1..Len(locs(err)) |-> PyStr(h, locs(err)[j])], ".")
        kw(err) == Dict(<< <<"message", GetDefault(err, "msg", Str("Validation error"))>>,
                           <<"field", IF joined(err) # "" THEN Str(joined(err)) ELSE NoneV>>,
                           <<"meta", Dict(<< <<"type", GetDefault(err, "type",
                                                          Str("validation_error"))>>,
                                             <<"input", Get(err, "input")>> >>)>> >>)
        kept == SelectIdx(errors, keep)
    IN  IF Len(errors) = 0
        THEN ErrorsOf(h, << Kw1("message", Str(PyStr(h, exc))) >>)
        ELSE ErrorsOf(h, [i \in 1..Len(kept) |-> kw(kept[i])])

\* NormalizeErrorsMixin._from_error_bag_format
from_error_bag_format(h, error, code) ==
    LET data == GetDefault(error, "data", List(<<>>)) IN
    IF ~Iterable(data) THEN Raise(h)
    ELSE LET els == IterOf(h, data) IN
         ErrorsOf(h, [i \in 1..Len(els) |->
                        IF els[i].t = "dict" THEN els[i]
                        ELSE Kw2("message", Str(PyStr(h, els[i])), "code", code)])

\* NormalizeErrorsMixin._from_description_format
from_description_format(h, error, code) ==
    LET description == Get(error, "description") IN
    IF description.t = "list"
    THEN LET kept == SelectIdx(description.l,
                               [i \in 1..Len(description.l) |-> Truthy(description.l[i])])
         IN  ErrorsOf(h, [i \in 1..Len(kept) |-> Kw2("message", kept[i], "code", code)])
    ELSE ErrorsOf(h, << Kw2("message", Str(PyStr(h, description)), "code", code) >>)

\* a bug: the key item forgotten in the exclusion set
MetaExcludedButItem == {"message", "msg", "field", "code", "meta"}

MetaExcluded == {"message", "msg", "field", "code", "item", "meta"}

\* a bug: the first key that is present decides, whatever its value
first_present_message(h, error) ==
    IF Has(error, "message") THEN Get(error, "message")
    ELSE IF Has(error, "msg") THEN Get(error, "msg")
    ELSE Str(PyStr(h, error))

\* error.get("message") or error.get("msg") or str(error)
generic_message(h, error) ==
    IF Truthy(Get(error, "message")) THEN Get(error, "message")
    ELSE IF Truthy(Get(error, "msg")) THEN Get(error, "msg")
    ELSE Str(PyStr(h, error))

\* NormalizeErrorsMixin._from_generic_dict
from_generic_dict(h, error, code) ==
    LET message == generic_message(h, error)
        field == Get(error, "field")
        error_code == IF Has(error, "code") THEN Get(error, "code") ELSE code
        item == IF Has(error, "item") THEN Get(error, "item") ELSE NoneV
        meta == IF Has(error, "meta")
                THEN (IF Get(error, "meta").t = "dict" THEN Get(error, "meta") ELSE EmptyDict)
                ELSE Dict(SelectIdx(error.kv,
                                    [i \in 1..Len(error.kv) |->
                                        error.kv[i][1] \notin MetaExcluded]))
    IN  ErrorsOf(h, << Dict(<< <<"message", message>>, <<"field", field>>,
                               <<"code", error_code>>, <<"item", item>>,
                               <<"meta", meta>> >>) >>)

\* NormalizeErrorsMixin._from_dict
from_dict(h, error, code) ==
    IF Has(error, "data") THEN from_error_bag_format(h, error, code)
    ELSE IF Has(error, "description") THEN from_description_format(h, error, code)
    ELSE from_generic_dict(h, error, code)

\* "isinstance(error, Exception) and hasattr(error, "errors") and
\* type(error).__name__ == "ApiError"": the class itself, not its subclasses
is_api_error(h, error) == error.t = "apierr" /\ h.apis[error.id].cls = "ApiError"

RECURSIVE normalize(_, _, _)

\* "error_items.extend(<converted>.errors)": the items of a converted element
extend_items(r) == IF r.raised THEN Raise(r.h) ELSE Ok(r.h, r.h.bags[r.ret])

\* the body of the loop of NormalizeErrorsMixin._from_sequence: the ids of the
\* items one element adds to error_items
from_sequence_item(h, item, code) ==
    CASE item.t = "item" -> Ok(h, <<item.id>>)
      [] item.t = "errors" -> Ok(h, h.bags[item.id])
      [] item.t = "valerr" -> extend_items(from_validation_error(h, item))
      [] item.t = "httperr" ->
             extend_items(normalize(h, extract_http_error_payload(h, item), code))
      [] is_api_error(h, item) -> Ok(h, h.bags[h.apis[item.id].errors])
      [] item.t = "dict" -> extend_items(from_dict(h, item, code))
      [] OTHER ->
             LET append(r) == IF r.raised THEN Raise(h) ELSE Ok(r.h, <<r.ret>>)
             IN  append(NewItem(h, Kw2("message", Str(PyStr(h, item)), "code", code)))

\* the loop of NormalizeErrorsMixin._from_sequence over the elements not yet
\* visited; error_items is the list built so far
RECURSIVE from_sequence_loop(_, _, _, _)
from_sequence_loop(h, rest, code, error_items) ==
    IF Len(rest) = 0 THEN NewErrors(h, error_items)
    ELSE LET next(r) == IF r.raised THEN Raise(h)
                        ELSE from_sequence_loop(r.h, Tail(rest), code,
                                                error_items \o r.ret)
         IN  next(from_sequence_item(h, Head(rest), code))

\* NormalizeErrorsMixin._from_sequence
from_sequence(h, error, code) == from_sequence_loop(h, error.l, code, <<>>)

\* the depth of the nested calls of normalize that normalize(error) makes:
\* normalize calls itself only on the payload of an HTTP error, at top level
\* ("return cls.normalize(payload, code=code)") and in the loop of
\* _from_sequence ("cls.normalize(payload, code=code).errors")
RECURSIVE reentries(_, _)
item_reentries(h, item) ==
    IF item.t = "httperr" THEN 1 + reentries(h, extract_http_error_payload(h, item))
    ELSE 0

RECURSIVE MaxReentries(_, _)
MaxReentries(h, rest) ==
    IF Len(rest) = 0 THEN 0
    ELSE LET here == item_reentries(h, Head(rest))
             there == MaxReentries(h, Tail(rest))
         IN  IF here > there THEN here ELSE there

reentries(h, error) ==
    CASE error.t \in {"errors", "item", "valerr"} -> 0
      [] error.t = "httperr" -> 1 + reentries(h, extract_http_error_payload(h, error))
      [] error.t \in {"list", "tuple"} -> MaxReentries(h, error.l)
      [] OTHER -> 0

\* a bug: an Errors input is copied into a new container
passthrough_copy(h, error) == NewErrors(h, h.bags[error.id])

\* "if isinstance(error, Errors): return error"
passthrough(h, error) == Ok(h, error.id)

\* a bug: the ApiError's container is copied into a new one
api_errors_copy(h, error) == NewErrors(h, h.bags[h.apis[error.id].errors])

\* "return error.errors"
api_errors(h, error) == Ok(h, h.apis[error.id].errors)

\* NormalizeErrorsMixin.normalize
normalize(h, error, code) ==
    CASE error.t = "errors" -> passthrough(h, error)
      [] error.t = "item" -> NewErrors(h, <<error.id>>)
      [] error.t = "valerr" -> from_validation_error(h, error)
      [] error.t = "httperr" -> normalize(h, extract_http_error_payload(h, error), code)
      [] is_api_error(h, error) -> api_errors(h, error)
      [] error.t \in {"dict", "mapping"} -> from_dict(h, error, code)
      [] error.t \in {"list", "tuple"} -> from_sequence(h, error, code)
      [] OTHER -> ErrorsOf(h, << Kw2("message", Str(PyStr(h, error)), "code", code) >>)

\* __init__.to_errors
to_errors(h, error, code) == normalize(h, error, code)

----------------------------------------------------------------------------
(* Errors: the container operations.  b is the id of the receiver.         *)

\* Errors.add
add(h, b, message, field, code, item, meta) ==
    IF message.t = "item"
    THEN Ok([h EXCEPT !.bags[b] = Append(@, message.id)], NoneV)
    ELSE LET r == NewItem(h, Dict(<< <<"message", message>>, <<"field", field>>,
                                     <<"code", code>>, <<"item", item>>,
                                     <<"meta", meta>> >>))
         IN  IF r.raised THEN Raise(h)
             ELSE Ok([r.h EXCEPT !.bags[b] = Append(@, r.ret)], NoneV)

\* Errors.extend: add(it) for each element; an exception leaves the elements
\* added before it in place
RECURSIVE extend(_, _, _)
extend(h, b, its) ==
    IF Len(its) = 0 THEN Ok(h, NoneV)
    ELSE LET r == add(h, b, Head(its), NoneV, NoneV, NoneV, EmptyDict) IN
         IF r.raised THEN Raise(r.h) ELSE extend(r.h, b, Tail(its))

\* Errors.__len__, Errors.__bool__
len(h, b) == Len(h.bags[b])
bool(h, b) == Len(h.bags[b]) > 0

\* a bug: "+" implemented as "+=", extending and returning the receiver
add_op_in_place(h, b, other) == Ok([h EXCEPT !.bags[b] = @ \o h.bags[other]], b)

\* Errors.__add__
add_op(h, b, other) == NewErrors(h, h.bags[b] \o h.bags[other])

\* ErrorItem.__eq__ (pydantic BaseModel): same class and equal field values;
\* neither the identity of the objects nor fields_set takes part
ItemEq(e1, e2) ==
    /\ e1.message = e2.message
    /\ e1.field = e2.field
    /\ e1.code = e2.code
    /\ e1.item = e2.item
    /\ Keys(e1.meta) = Keys(e2.meta)
    /\ \A k \in Keys(e1.meta) : Get(e1.meta, k) = Get(e2.meta, k)

\* a bug: items compared by identity ("is") instead of by value
NotInOtherIdentity(h, e, other_items) ==
    \A j \in 1..Len(other_items) : e # other_items[j]

\* "e not in other_items" of Errors.__sub__
NotInOther(h, e, other_items) ==
    \A j \in 1..Len(other_items) : ~ItemEq(h.items[e], h.items[other_items[j]])

\* Errors.__sub__
sub_op(h, b, other) ==
    LET other_items == h.bags[other]
        self_items == h.bags[b]
        result == SelectIdx(self_items, [i \in 1..Len(self_items) |->
                                            NotInOther(h, self_items[i], other_items)])
    IN  NewErrors(h, result)

\* a bug: the assignment leaves the object's fields_set as it was
SetCodeUntracked(e, default_code) == [e EXCEPT !.code = default_code]

\* the assignment error_item.code = default_code: an attribute assignment also
\* enters the field into the object's fields_set
SetCode(e, default_code) ==
    [e EXCEPT !.code = default_code, !.fset = @ \cup {"code"}]

\* a bug: "if not error_item.code", which also replaces an explicit 0
code_is_falsy(e) == ~Truthy(e.code)

\* "if error_item.code is None"
code_is_none(e) == e.code = NoneV

\* Errors.normalize_codes
normalize_codes(h, b, default_code) ==
    LET ids == {h.bags[b][i] : i \in 1..Len(h.bags[b])} IN
    Ok([h EXCEPT !.items = [id \in DOMAIN h.items |->
                              IF id \in ids /\ code_is_none(h.items[id])
                              THEN SetCode(h.items[id], default_code)
                              ELSE h.items[id]]],
       NoneV)

\* a bug: "if code:", which takes code=0 and has_meta=False for not given
is_truthy(v) == Truthy(v)

\* "if field is not None"
is_not_none(v) == v # NoneV

\* Errors.filter_by
filter_by(h, b, field, code, has_meta) ==
    LET self_errors == h.bags[b]
        by_field == IF is_not_none(field)
                    THEN SelectIdx(self_errors, [i \in 1..Len(self_errors) |->
                                       h.items[self_errors[i]].field = field])
                    ELSE self_errors
        by_code == IF is_not_none(code)
                   THEN SelectIdx(by_field, [i \in 1..Len(by_field) |->
                                     h.items[by_field[i]].code = code])
                   ELSE by_field
        filtered == IF is_not_none(has_meta)
                    THEN SelectIdx(by_code, [i \in 1..Len(by_code) |->
                                      Truthy(h.items[by_code[i]].meta) = has_meta.b])
                    ELSE by_code
    IN  NewErrors(h, filtered)

\* a bug: the items are moved, leaving other empty
merge_moving(h, b, other) ==
    Ok([h EXCEPT !.bags = [x \in DOMAIN h.bags |->
                              IF x = b THEN h.bags[b] \o h.bags[other]
                              ELSE IF x = other THEN <<>> ELSE h.bags[x]]],
       NoneV)

\* Errors.merge: self.errors.extend(other.errors)
merge(h, b, other) == Ok([h EXCEPT !.bags[b] = @ \o h.bags[other]], NoneV)

FieldOrder == <<"message", "field", "code", "item", "meta">>

\* ErrorItem.model_dump(exclude_unset=..., exclude_none=...): the flags decide
\* which fields are dumped; the values inside meta are dumped as they are
model_dump(e, exclude_unset, exclude_none) ==
    LET value(f) == e[f]
        keep == [i \in 1..5 |->
                    /\ (exclude_unset => FieldOrder[i] \in e.fset)
                    /\ (exclude_none => e[FieldOrder[i]] # NoneV)]
    IN  Dict(SelectIdx([i \in 1..5 |-> <<FieldOrder[i], value(FieldOrder[i])>>], keep))

\* a bug: the messages deduplicated, each kept at its first occurrence
description_unique(dumped) ==
    SelectIdx([i \in 1..Len(dumped) |-> Get(dumped[i], "message")],
              [i \in 1..Len(dumped) |->
                  \A j \in 1..(i - 1) : Get(dumped[j], "message") # Get(dumped[i], "message")])

\* "messages = [i["message"] for i in items]"
description_of(dumped) == [i \in 1..Len(dumped) |-> Get(dumped[i], "message")]

\* Errors.to_dict; i["message"] raises KeyError when a dump has no message
to_dict(h, b, exclude_unset, exclude_none) ==
    LET dumped == [i \in 1..Len(h.bags[b]) |->
                      model_dump(h.items[h.bags[b][i]], exclude_unset, exclude_none)]
    IN  IF \E i \in 1..Len(dumped) : ~Has(dumped[i], "message") THEN Raise(h)
        ELSE Ok(h, Dict(<< <<"description", List(description_of(dumped))>>,
                           <<"data", List(dumped)>> >>))

\* ApiError.__init__ for the class (or subclass) cls defined in the module
\* whose dotted path has the segments module
ApiError(h, cls, module, error, code) ==
    LET init(r) == IF r.raised THEN Raise(h)
                   ELSE Ok([r.h EXCEPT !.apis = Append(@, [cls |-> cls, module |-> module,
                                                           errors |-> r.ret])],
                           Len(h.apis) + 1)
    IN  init(normalize(h, error, code))

----------------------------------------------------------------------------
(* Bounds of the model.                                                    *)

MaxCalls == 2     \* Spec: calls made on the containers after construction
MaxLen == 2       \* SpecNormalize: length of a list or tuple given to normalize

H == Heap(items, bags, apis)

BagIds == 1..Len(bags)
ItemIds == 1..Len(items)

\* the objects that exist at the start are those of the heap h
Built(h) ==
    /\ items = h.items
    /\ bags = h.bags
    /\ apis = h.apis
    /\ env = NoEnv

Commit(h) ==
    /\ items' = h.items
    /\ bags' = h.bags
    /\ apis' = h.apis
    /\ env' = env

\* the record of a call: its name, its arguments, the heaps before it, its
\* outcome, how many calls were made so far, and the name of the call before
Call(op, args, r) ==
    [op |-> op, args |-> args, pre |-> H, raised |-> r.raised, ret |-> r.ret,
     n |-> last.n + 1, prev |-> last.op]

\* sequences over S of length 0..n
RECURSIVE SeqsUpTo(_, _)
SeqsUpTo(S, n) ==
    IF n = 0 THEN {<<>>}
    ELSE LET shorter == SeqsUpTo(S, n - 1) IN
         shorter \cup {Append(q, x) : q \in {q \in shorter : Len(q) = n - 1}, x \in S}

\* dicts that hold, for each <<key, values>> of opts in order, either no entry
\* for the key or one of the values
RECURSIVE KvChoices(_)
KvChoices(opts) ==
    IF Len(opts) = 0 THEN {<<>>}
    ELSE LET first == {<<>>} \cup {<< <<opts[1][1], v>> >> : v \in opts[1][2]} IN
         {f \o rest : f \in first, rest \in KvChoices(Tail(opts))}

----------------------------------------------------------------------------
(* Spec: two containers built by Errors(root=[...]) and then the calls     *)
(* made on them.                                                           *)

\* ErrorItem(message="a")
ItemA == Kw1("message", Str("a"))
\* ErrorItem(message="b", field="f", code=0, meta={"k": 1})
ItemB == Dict(<< <<"message", Str("b")>>, <<"field", Str("f")>>, <<"code", Num(0)>>,
                 <<"meta", Kw1("k", Num(1))>> >>)
\* ErrorItem(message="a", code=None)
ItemC == Kw2("message", Str("a"), "code", NoneV)

\* the roots the two containers are constructed with
Roots1 == {<<ItemA, ItemB, ItemC>>, <<ItemB>>}
Roots2 == {<<ItemA>>, <<>>}

\* arguments of add(message, field=, code=, item=, **meta)
AddArgs ==
    { [message |-> Str("a"), field |-> NoneV, code |-> NoneV, item |-> NoneV,
       meta |-> EmptyDict],
      [message |-> Str("b"), field |-> Str("f"), code |-> Num(0), item |-> NoneV,
       meta |-> Kw2("k", Num(1), "z", NoneV)],
      [message |-> Num(5), field |-> NoneV, code |-> NoneV, item |-> NoneV,
       meta |-> EmptyDict],
      [message |-> Exc("ValueError", "boom"), field |-> NoneV, code |-> NoneV,
       item |-> NoneV, meta |-> EmptyDict] }

\* add(x) and add(x, field="z", code=9, item=1, k=1) for an ErrorItem x
AddItemArgs(x) ==
    { [message |-> x, field |-> NoneV, code |-> NoneV, item |-> NoneV,
       meta |-> EmptyDict],
      [message |-> x, field |-> Str("z"), code |-> Num(9), item |-> Num(1),
       meta |-> Kw1("k", Num(1))] }

ItemRefs == {ItemRef(i) : i \in ItemIds}

\* arguments of extend(items)
ExtendArgs == {<<Str("a"), ItemRef(1)>>, <<Str("b"), Num(5), Str("a")>>}

DefaultCodes == {Num(0), Num(500)}

\* the module of ApiError, and the module of a subclass UserError of it
ApiErrorModule == <<"django_tools", "errors", "exceptions">>
UserErrorModule == <<"myapp", "errors">>

\* ApiError and a subclass of it:  class UserError(ApiError): pass
ApiClasses == {[cls |-> "ApiError", module |-> ApiErrorModule],
               [cls |-> "UserError", module |-> UserErrorModule]}

\* arguments of ApiError(error, code=): a string, the two containers built at
\* the start, an item of the first, an empty list, a mapping ErrorItem rejects
ApiErrorInputs ==
    {Str("oops"), ErrorsRef(1), ErrorsRef(2), ItemRef(1), List(<<>>),
     Kw1("message", Num(5))}

ApiCodes == {NoneV, Num(500)}

\* arguments of filter_by(field=, code=, has_meta=)
FilterArgs ==
    [field : {NoneV, Str("f")}, code : {NoneV, Num(0), Num(500)},
     has_meta : {NoneV, Bool(TRUE), Bool(FALSE)}]

Init ==
    \E r1 \in Roots1, r2 \in Roots2 :
        LET e1 == ErrorsOf(Heap(<<>>, <<>>, <<>>), r1)
            e2 == ErrorsOf(e1.h, r2) IN
        /\ Built(e2.h)
        /\ last = [op |-> "init", n |-> 0]

\* Errors(root=[])
Construct ==
    LET r == NewErrors(H, <<>>) IN
    /\ last.n < MaxCalls
    /\ Commit(r.h)
    /\ last' = Call("Errors", <<>>, r)

AddCall ==
    \E b \in BagIds, a \in AddArgs \cup UNION {AddItemArgs(x) : x \in ItemRefs} :
        LET r == add(H, b, a.message, a.field, a.code, a.item, a.meta) IN
        /\ last.n < MaxCalls
        /\ Commit(r.h)
        /\ last' = Call("add", <<b, a>>, r)

ExtendCall ==
    \E b \in BagIds, its \in ExtendArgs :
        LET r == extend(H, b, its) IN
        /\ last.n < MaxCalls
        /\ Commit(r.h)
        /\ last' = Call("extend", <<b, its>>, r)

MergeCall ==
    \E b \in BagIds, other \in BagIds :
        LET r == merge(H, b, other) IN
        /\ last.n < MaxCalls
        /\ Commit(r.h)
        /\ last' = Call("merge", <<b, other>>, r)

NormalizeCodesCall ==
    \E b \in BagIds, d \in DefaultCodes :
        LET r == normalize_codes(H, b, d) IN
        /\ last.n < MaxCalls
        /\ Commit(r.h)
        /\ last' = Call("normalize_codes", <<b, d>>, r)

AddOpCall ==
    \E b \in BagIds, other \in BagIds :
        LET r == add_op(H, b, other) IN
        /\ last.n < MaxCalls
        /\ Commit(r.h)
        /\ last' = Call("__add__", <<b, other>>, r)

SubOpCall ==
    \E b \in BagIds, other \in BagIds :
        LET r == sub_op(H, b, other) IN
        /\ last.n < MaxCalls
        /\ Commit(r.h)
        /\ last' = Call("__sub__", <<b, other>>, r)

ToDictCall ==
    \E b \in BagIds, exclude_unset \in BOOLEAN, exclude_none \in BOOLEAN :
        LET r == to_dict(H, b, exclude_unset, exclude_none) IN
        /\ last.n < MaxCalls
        /\ Commit(r.h)
        /\ last' = Call("to_dict", <<b, exclude_unset, exclude_none>>, r)

FilterByCall ==
    \E b \in BagIds, a \in FilterArgs :
        LET r == filter_by(H, b, a.field, a.code, a.has_meta) IN
        /\ last.n < MaxCalls
        /\ Commit(r.h)
        /\ last' = Call("filter_by", <<b, a>>, r)

\* e = ApiError(error, code=code), or the same for the subclass, also with
\* another ApiError object as error
ApiErrorCall ==
    \E c \in ApiClasses, code \in ApiCodes,
       error \in ApiErrorInputs \cup {ApiRef(a) : a \in 1..Len(apis)} :
        LET done(r) == /\ Commit(r.h)
                       /\ last' = Call("ApiError", <<c, error, code>>, r)
        IN  /\ last.n < MaxCalls
            /\ done(ApiError(H, c.cls, c.module, error, code))

Next ==
    \/ Construct
    \/ AddCall
    \/ ExtendCall
    \/ MergeCall
    \/ NormalizeCodesCall
    \/ AddOpCall
    \/ SubOpCall
    \/ ToDictCall
    \/ FilterByCall
    \/ ApiErrorCall

Spec == Init /\ [][Next]_vars

----------------------------------------------------------------------------
(* SpecNormalize: one call of Errors.normalize on a value drawn from the   *)
(* shapes the dispatcher distinguishes, over a heap that already holds two *)
(* containers and two ApiError objects.                                    *)

Codes == {NoneV, Num(500)}

Atoms == {Str("a"), Str(""), Num(0), Num(7), NoneV, Exc("ValueError", "boom"),
          Obj("<object>")}

\* failure records of a validation error
Rec1 == Dict(<< <<"loc", Tuple(<<Str("body"), Num(0), Str("name")>>)>>,
                <<"msg", Str("too short")>>, <<"type", Str("string_too_short")>>,
                <<"input", Str("Ab")>> >>)
Rec2 == Dict(<< <<"loc", Tuple(<<>>)>>, <<"msg", Str("bad")>> >>)
RecNoMsg == Dict(<< <<"loc", Tuple(<<Str("field")>>)>>, <<"type", Str("error")>> >>)
RecEmptyMsg == Dict(<< <<"loc", Tuple(<<Str("age")>>)>>, <<"msg", Str("")>>,
                       <<"type", Str("int_parsing")>>, <<"input", Num(0)>> >>)

ValErrs ==
    {ValErr(TRUE, <<Rec1, RecNoMsg, Rec2>>, "3 validation errors"),
     ValErr(TRUE, <<RecNoMsg>>, "1 validation error"),
     ValErr(TRUE, <<RecEmptyMsg, Rec2, Rec1>>, "3 validation errors for M"),
     ValErr(TRUE, <<RecEmptyMsg>>, "1 validation error for M"),
     ValErr(TRUE, <<>>, "0 validation errors"),
     ValErr(FALSE, <<Rec1>>, "[{'loc': ('body', 0, 'name'), 'msg': 'too short'}]")}

HttpErrs ==
    {HttpErr(<<Num(400), Str("bad")>>, "bad"),
     HttpErr(<<Num(400), Kw2("message", Str("m"), "code", Num(0))>>, "{'message': 'm'}"),
     HttpErr(<<Num(400), List(<<Str("x"), Str("y")>>)>>, "['x', 'y']"),
     HttpErr(<<Kw1("msg", Str("g"))>>, "{'msg': 'g'}"),
     HttpErr(<<Str("only")>>, "only"),
     HttpErr(<<Num(404)>>, "404"),
     HttpErr(<<Num(400), NoneV>>, "None"),
     HttpErr(<<Num(400), Kw1("message", Num(5))>>, "{'message': 5}"),
     HttpErr(<<Num(400), Kw1("data", List(<<Str("x")>>)), Str("extra")>>, "{'data': ['x']}"),
     HttpErr(<<Num(400), List(<<HttpErr(<<Num(400), Str("bad")>>, "bad")>>)>>,
             "[HttpError(400, 'bad')]"),
     HttpErr(<<>>, "Bad Request"),
     HttpErr(<<>>, "")}

GenericDicts ==
    {Dict(kv) : kv \in KvChoices(<<
        <<"message", {Str("m"), Str(""), Num(5), Num(0), NoneV}>>,
        <<"msg", {Str("g"), Str("")}>>,
        <<"field", {Str("f"), Num(3)}>>,
        <<"code", {NoneV, Num(0), Num(400), Str("bad")}>>,
        <<"item", {Num(1)}>>,
        <<"meta", {Kw1("k", Num(1)), EmptyDict, Str("x"), NoneV}>>,
        <<"hint", {Str("h")}>>,
        <<"retry", {Num(0)}>> >>)}

DataVals ==
    {List(<<>>),
     List(<<Str("x"), Num(1)>>),
     List(<<ItemB, Str("x")>>),
     List(<<Dict(<< <<"message", Str("m")>>, <<"code", Num(0)>>, <<"hint", Str("h")>> >>)>>),
     List(<<Kw1("field", Str("f"))>>),
     List(<<ItemRef(1)>>),
     Tuple(<<Str("x")>>),
     ErrorsRef(1),
     NoneV,
     Num(3)}

DataDicts ==
    {Dict(kv) : kv \in {q \in KvChoices(<<
        <<"description", {List(<<Str("e1"), Str("e2")>>)}>>,
        <<"message", {Str("m")}>>,
        <<"data", DataVals>>,
        <<"code", {Num(0)}>> >>) : \E i \in 1..Len(q) : q[i][1] = "data"}}

DescriptionVals ==
    {List(<<Str("e1"), Str(""), Str("e2")>>), List(<<>>), List(<<Str("e1"), Num(1)>>),
     Tuple(<<Str("e1")>>), Str("d"), Str(""), NoneV, Num(0)}

DescriptionDicts ==
    {Dict(kv) : kv \in {q \in KvChoices(<<
        <<"message", {Str("m")}>>,
        <<"description", DescriptionVals>>,
        <<"code", {Num(0)}>> >>) : \E i \in 1..Len(q) : q[i][1] = "description"}}

Mappings ==
    {Mapping(ItemB.kv), Mapping(<< <<"hint", Str("h")>> >>),
     Mapping(<< <<"data", List(<<Str("x")>>)>> >>),
     Mapping(<< <<"description", Str("d")>> >>)}

\* the elements of the lists and tuples given to normalize
Elems ==
    Atoms
    \cup {ItemRef(1), ItemRef(2), ErrorsRef(1), ErrorsRef(2), ApiRef(1), ApiRef(2)}
    \cup {ValErr(TRUE, <<Rec1, RecNoMsg, Rec2>>, "3 validation errors"),
          ValErr(TRUE, <<>>, "0 validation errors")}
    \cup {HttpErr(<<Num(400), Str("bad")>>, "bad"),
          HttpErr(<<Num(400), List(<<Str("x"), Str("y")>>)>>, "['x', 'y']"),
          HttpErr(<<Kw1("msg", Str("g"))>>, "{'msg': 'g'}")}
    \cup {ItemB, Kw1("message", Str("m")), Kw1("code", Num(5)), Kw1("message", Num(5)),
          Kw1("data", List(<<Str("x"), Str("y")>>)),
          Kw1("description", List(<<Str("e1"), Str("e2")>>))}
    \cup {List(<<>>), List(<<Str("x"), Str("y")>>), Tuple(<<ItemRef(1)>>),
          List(<<ErrorsRef(1)>>)}
    \cup {Mapping(ItemB.kv)}

SequenceInputs ==
    {List(q) : q \in SeqsUpTo(Elems, MaxLen)} \cup {Tuple(q) : q \in SeqsUpTo(Elems, MaxLen)}

NormalizeInputs ==
    Atoms
    \cup {ItemRef(1), ItemRef(2), ErrorsRef(1), ErrorsRef(2), ApiRef(1), ApiRef(2)}
    \cup ValErrs \cup HttpErrs
    \cup GenericDicts \cup DataDicts \cup DescriptionDicts \cup Mappings
    \cup SequenceInputs

\* after  e1 = Errors(root=[ErrorItem(message="p", code=400),
\*                          ErrorItem(message="q", field="f")]);
\*        e2 = Errors(root=[]); ApiError(e1); UserError(e1)
\* with the arguments of the call of normalize to come drawn in last.args
InitNormalize ==
    LET e1 == ErrorsOf(Heap(<<>>, <<>>, <<>>),
                       << Kw2("message", Str("p"), "code", Num(400)),
                          Kw2("message", Str("q"), "field", Str("f")) >>)
        e2 == NewErrors(e1.h, <<>>)
        a1 == ApiError(e2.h, "ApiError", ApiErrorModule, ErrorsRef(1), NoneV)
        a2 == ApiError(a1.h, "UserError", UserErrorModule, ErrorsRef(1), NoneV) IN
    /\ Built(a2.h)
    /\ \E error \in NormalizeInputs, code \in Codes :
           last = [op |-> "init", n |-> 0, args |-> <<error, code>>]

\* normalize(error, code) on the drawn arguments; a call that raises leaves no
\* reachable object behind
NormalizeCall ==
    LET error == last.args[1]
        code == last.args[2]
        done(r) == /\ Commit(IF r.raised THEN H ELSE r.h)
                   /\ last' = Call("normalize", <<error, code>>, r)
    IN  /\ last.n = 0
        /\ done(normalize(H, error, code))

NextNormalize == NormalizeCall

SpecNormalize == InitNormalize /\ [][NextNormalize]_vars

----------------------------------------------------------------------------
(* The claims.  A formula about a call reads the call's record in last:    *)
(* last.pre holds the heaps before the call, the variables hold them after.*)

IsNormalize == last.op = "normalize"
\* the value given to normalize, and the outer code
Arg == last.args[1]
OuterCode == last.args[2]
\* the root of the container a call returned, and its i-th item
RetRoot == bags[last.ret]
RetItem(i) == items[bags[last.ret][i]]
\* the field values of an item, without its fields_set
Fields(e) == [message |-> e.message, field |-> e.field, code |-> e.code,
              item |-> e.item, meta |-> e.meta]

\* C1: for every input value and every outer code, Errors.normalize returns an
\* Errors and never raises.
C1_Totality == IsNormalize => ~last.raised

\* C2: normalize of an Errors instance returns that very object, whatever the
\* outer code, and leaves every container and every item as it was.
C2_IdentityPreserving ==
    (IsNormalize /\ Arg.t = "errors") =>
        /\ ~last.raised
        /\ last.ret = Arg.id
        /\ H = last.pre

\* C2 happens: a non-empty Errors holding an item without a code was normalized
\* with an outer code, and came back itself with that item still without a code.
C2_Witness ==
    /\ IsNormalize /\ Arg = ErrorsRef(1) /\ OuterCode = Num(500)
    /\ last.ret = 1
    /\ Len(bags[1]) = 2
    /\ items[bags[1][2]].code = NoneV

GenericMapping(m) ==
    m.t \in {"dict", "mapping"} /\ ~Has(m, "data") /\ ~Has(m, "description")

\* the code the claim C3 gives the item of a generic mapping
ExpectedCode(m, c) == IF "code" \in Keys(m) THEN Get(m, "code") ELSE c

\* C3: for every mapping without the keys data and description and every outer
\* code, normalize produces a single item, whose code is the mapping's "code"
\* when that key is present (also 0 or None) and the outer code otherwise.
C3_CodePrecedence ==
    (IsNormalize /\ GenericMapping(Arg)) =>
        /\ ~last.raised
        /\ Len(RetRoot) = 1
        /\ RetItem(1).code = ExpectedCode(Arg, OuterCode)

\* what holds of C3: whenever normalize returns for a generic mapping, the
\* single item has the code C3 names
C3_WhenReturned ==
    (IsNormalize /\ GenericMapping(Arg) /\ ~last.raised) =>
        /\ Len(RetRoot) = 1
        /\ RetItem(1).code = ExpectedCode(Arg, OuterCode)

DataMapping(m) == m.t \in {"dict", "mapping"} /\ Has(m, "data")

\* the item C4 expects for the element el of data
FromElement(h, el, c, e) ==
    IF el.t = "dict"
    THEN /\ e.message = Get(el, "message")
         /\ e.field = Get(el, "field")
         /\ e.code = Get(el, "code")
         /\ e.item = Get(el, "item")
         /\ e.meta = (IF Has(el, "meta") THEN Get(el, "meta") ELSE EmptyDict)
    ELSE Fields(e) = [message |-> Str(PyStr(h, el)), field |-> NoneV, code |-> c,
                      item |-> NoneV, meta |-> EmptyDict]

\* C4: for a mapping with the key data (an iterable), normalize builds one item
\* per element of data, from that element alone, whatever the other keys hold;
\* with data == [] the result is empty.
C4_DataPrecedence ==
    (IsNormalize /\ DataMapping(Arg) /\ Iterable(Get(Arg, "data"))) =>
        LET els == IterOf(last.pre, Get(Arg, "data")) IN
        /\ ~last.raised
        /\ Len(RetRoot) = Len(els)
        /\ \A i \in 1..Len(els) : FromElement(last.pre, els[i], OuterCode, RetItem(i))

\* what holds of C4: whenever normalize returns for such a mapping
C4_WhenReturned ==
    (IsNormalize /\ DataMapping(Arg) /\ ~last.raised) =>
        LET els == IterOf(last.pre, Get(Arg, "data")) IN
        /\ Len(RetRoot) = Len(els)
        /\ \A i \in 1..Len(els) : FromElement(last.pre, els[i], OuterCode, RetItem(i))

IsSequence(v) == v.t \in {"list", "tuple"}

\* the items a result holds: object ids and field values, in order
ResultItems(r) ==
    [i \in 1..Len(r.h.bags[r.ret]) |->
        [id |-> r.h.bags[r.ret][i], fields |-> Fields(r.h.items[r.h.bags[r.ret][i]])]]

\* objects that exist before the call keep their id; items made by the call
\* are compared by their field values
SameItems(h, p, q) ==
    /\ Len(p) = Len(q)
    /\ \A i \in 1..Len(p) :
          /\ p[i].fields = q[i].fields
          /\ (p[i].id <= Len(h.items) \/ q[i].id <= Len(h.items)) => p[i].id = q[i].id

\* the items the element x contributes: those of normalize([x])
Contribution(h, x, c) == normalize(h, List(<<x>>), c)

RECURSIVE Contributions(_, _, _)
Contributions(h, xs, c) ==
    IF Len(xs) = 0 THEN <<>>
    ELSE ResultItems(Contribution(h, Head(xs), c)) \o Contributions(h, Tail(xs), c)

\* C5: for every list or tuple, the items of its normalization are the items
\* contributed by its first element, then those of the second, and so on, none
\* dropped, duplicated or reordered.
C5_OrderPreserved ==
    (IsNormalize /\ IsSequence(Arg)) =>
        /\ ~last.raised
        /\ SameItems(last.pre, ResultItems([h |-> H, ret |-> last.ret]),
                     Contributions(last.pre, Arg.l, OuterCode))

\* what holds of C5: normalize raises exactly when an element alone makes it
\* raise, and otherwise the result is the concatenation of the contributions
C5_WhenReturned ==
    (IsNormalize /\ IsSequence(Arg)) =>
        /\ last.raised <=>
              \E i \in 1..Len(Arg.l) : Contribution(last.pre, Arg.l[i], OuterCode).raised
        /\ ~last.raised =>
              SameItems(last.pre, ResultItems([h |-> H, ret |-> last.ret]),
                        Contributions(last.pre, Arg.l, OuterCode))

\* the number of items the elements before the i-th contribute
Offset(h, xs, c, i) == Len(Contributions(h, SubSeq(xs, 1, i - 1), c))

\* the single item C6 expects for the inner list or tuple x
InnerAsOne(h, x, c, e) ==
    Fields(e) = [message |-> Str(PyStr(h, x)), field |-> NoneV, code |-> c,
                 item |-> NoneV, meta |-> EmptyDict]

\* C6: an element of a normalized sequence that is itself a list or tuple
\* contributes exactly one item, whose message is the string form of the whole
\* inner sequence and whose code is the outer code; its elements are not expanded.
C6_OneLevelOnly ==
    (IsNormalize /\ IsSequence(Arg) /\ \E i \in 1..Len(Arg.l) : IsSequence(Arg.l[i])) =>
        /\ ~last.raised
        /\ \A i \in 1..Len(Arg.l) : IsSequence(Arg.l[i]) =>
              /\ Len(ResultItems(Contribution(last.pre, Arg.l[i], OuterCode))) = 1
              /\ InnerAsOne(last.pre, Arg.l[i], OuterCode,
                            RetItem(Offset(last.pre, Arg.l, OuterCode, i) + 1))

\* what holds of C6: whenever normalize returns
C6_WhenReturned ==
    (IsNormalize /\ IsSequence(Arg) /\ ~last.raised) =>
        \A i \in 1..Len(Arg.l) : IsSequence(Arg.l[i]) =>
            /\ Len(ResultItems(Contribution(last.pre, Arg.l[i], OuterCode))) = 1
            /\ InnerAsOne(last.pre, Arg.l[i], OuterCode,
                          RetItem(Offset(last.pre, Arg.l, OuterCode, i) + 1))

\* the containers and items that existed before the last call are unchanged
OldBagsUnchanged == \A b \in 1..Len(last.pre.bags) : bags[b] = last.pre.bags[b]
ItemsUnchanged == items = last.pre.items

\* C7: for every Errors reached by add, extend, merge and normalize_codes, and
\* every combination of exclude_unset and exclude_none, to_dict returns exactly
\* the keys description and data, both lists as long as the container, and
\* description[i] is the message of the i-th item.
C7_ToDictPairing ==
    (last.op = "to_dict") =>
        LET root == bags[last.args[1]] IN
        /\ ~last.raised
        /\ [i \in 1..Len(last.ret.kv) |-> last.ret.kv[i][1]] = <<"description", "data">>
        /\ Len(Get(last.ret, "description").l) = Len(root)
        /\ Len(Get(last.ret, "data").l) = Len(root)
        /\ \A i \in 1..Len(root) :
              Get(last.ret, "description").l[i] = items[root[i]].message

\* C7 happens: to_dict with both flags set on a container of at least three
\* items, two with the same message and one whose code normalize_codes assigned.
C7_Witness ==
    /\ last.op = "to_dict" /\ last.args[2] /\ last.args[3]
    /\ LET root == bags[last.args[1]] IN
       /\ Len(root) >= 3
       /\ \E i, j \in 1..Len(root) : i # j /\ items[root[i]].message = items[root[j]].message
       /\ \E i \in 1..Len(root) : items[root[i]].code = Num(500)
    /\ Len(Get(last.ret, "description").l) >= 3

\* field-for-field equality of two items
FieldEq(e1, e2) ==
    /\ e1.message = e2.message /\ e1.field = e2.field /\ e1.code = e2.code
    /\ e1.item = e2.item
    /\ Keys(e1.meta) = Keys(e2.meta)
    /\ \A k \in Keys(e1.meta) : Get(e1.meta, k) = Get(e2.meta, k)

\* C8: a - b is a new Errors holding exactly the items of a, in a's order, that
\* are field-for-field equal to no item of b, whatever the number of
\* occurrences on either side; a and b are unchanged.
C8_Subtraction ==
    (last.op = "__sub__") =>
        LET a == last.pre.bags[last.args[1]]
            b == last.pre.bags[last.args[2]]
            Kept(id) == \A j \in 1..Len(b) : ~FieldEq(last.pre.items[id], last.pre.items[b[j]])
        IN  /\ ~last.raised
            /\ last.ret = Len(last.pre.bags) + 1
            /\ Len(bags) = Len(last.pre.bags) + 1
            /\ bags[last.ret] = SelectSeq(a, Kept)
            /\ OldBagsUnchanged
            /\ ItemsUnchanged

\* C8 happens: a holds two distinct objects equal to the one item of b, which is
\* a third object; both are removed and the remaining item is kept.
C8_Witness ==
    /\ last.op = "__sub__"
    /\ LET a == last.pre.bags[last.args[1]]
           b == last.pre.bags[last.args[2]]
       IN  /\ Len(a) = 3 /\ Len(b) = 1
           /\ \E i, j \in 1..3 : /\ i # j /\ a[i] # a[j] /\ a[i] # b[1] /\ a[j] # b[1]
                                 /\ FieldEq(items[a[i]], items[b[1]])
                                 /\ FieldEq(items[a[j]], items[b[1]])
           /\ Len(bags[last.ret]) = 1

\* C9: normalize_codes(d) gives the code d to every item of the container
\* whose code was absent and changes nothing else: explicit codes (0 too),
\* the number and order of the items, and every message, field, item and meta
\* stay; afterwards no item of the container has an absent code and a second
\* normalize_codes, with any default, changes nothing.
C9_NormalizeCodes ==
    (last.op = "normalize_codes") =>
        LET b == last.args[1]
            d == last.args[2]
            root == last.pre.bags[b]
        IN  /\ ~last.raised
            /\ bags = last.pre.bags
            /\ Len(items) = Len(last.pre.items)
            /\ \A i \in 1..Len(root) :
                  LET old == last.pre.items[root[i]]
                      new == items[root[i]]
                  IN  /\ new.code = (IF old.code = NoneV THEN d ELSE old.code)
                      /\ new.message = old.message /\ new.field = old.field
                      /\ new.item = old.item /\ new.meta = old.meta
                      /\ new.code # NoneV
            /\ \A d2 \in DefaultCodes \cup {Num(7)} : normalize_codes(H, b, d2).h = H

\* C9 happens: normalize_codes(500) on a container holding an item without a
\* code and an item with the explicit code 0.
C9_Witness ==
    /\ last.op = "normalize_codes" /\ last.args[2] = Num(500)
    /\ LET root == last.pre.bags[last.args[1]] IN
       \E i, j \in 1..Len(root) :
           /\ last.pre.items[root[i]].code = NoneV /\ items[root[i]].code = Num(500)
           /\ last.pre.items[root[j]].code = Num(0) /\ items[root[j]].code = Num(0)

\* C10: a + b is a new Errors, distinct from a and b, holding a's items
\* followed by b's items with no deduplication; a and b are unchanged.
C10_Concatenation ==
    (last.op = "__add__") =>
        LET a == last.args[1]
            b == last.args[2]
        IN  /\ ~last.raised
            /\ last.ret = Len(last.pre.bags) + 1
            /\ last.ret # a /\ last.ret # b
            /\ Len(bags) = Len(last.pre.bags) + 1
            /\ bags[last.ret] = last.pre.bags[a] \o last.pre.bags[b]
            /\ Len(bags[last.ret]) = Len(last.pre.bags[a]) + Len(last.pre.bags[b])
            /\ OldBagsUnchanged
            /\ ItemsUnchanged

\* C10 happens: two different non-empty containers that hold equal items are
\* added, and the result holds all of them.
C10_Witness ==
    /\ last.op = "__add__" /\ last.args[1] # last.args[2]
    /\ LET a == bags[last.args[1]]
           b == bags[last.args[2]]
       IN  /\ Len(a) > 0 /\ Len(b) > 0
           /\ \E i \in 1..Len(a), j \in 1..Len(b) : FieldEq(items[a[i]], items[b[j]])
           /\ Len(bags[last.ret]) = Len(a) + Len(b)

\* C11: filter_by returns a new Errors holding, in the receiver's order,
\* exactly the items that satisfy every predicate given (field equal, code
\* equal, meta non-empty equal to has_meta); a predicate given as None imposes
\* no constraint, so filter_by() returns all items; the receiver, the other
\* containers and the items are unchanged.
C11_FilterBy ==
    (last.op = "filter_by") =>
        LET b == last.args[1]
            a == last.args[2]
            Sat(id) ==
                LET e == last.pre.items[id] IN
                /\ a.field # NoneV => e.field = a.field
                /\ a.code # NoneV => e.code = a.code
                /\ a.has_meta # NoneV => ((Len(e.meta.kv) > 0) <=> a.has_meta.b)
        IN  /\ ~last.raised
            /\ last.ret = Len(last.pre.bags) + 1
            /\ Len(bags) = Len(last.pre.bags) + 1
            /\ bags[last.ret] = SelectSeq(last.pre.bags[b], Sat)
            /\ (a.field = NoneV /\ a.code = NoneV /\ a.has_meta = NoneV)
                  => bags[last.ret] = last.pre.bags[b]
            /\ OldBagsUnchanged
            /\ ItemsUnchanged

\* C11 happens: filter_by(code=0, has_meta=True) on a container of three items
\* keeps the one item with code 0 and a non-empty meta and drops an item
\* without a code.
C11_Witness ==
    /\ last.op = "filter_by"
    /\ last.args[2] = [field |-> NoneV, code |-> Num(0), has_meta |-> Bool(TRUE)]
    /\ Len(last.pre.bags[last.args[1]]) = 3
    /\ Len(bags[last.ret]) = 1
    /\ items[bags[last.ret][1]].code = Num(0)
    /\ \E i \in 1..3 : items[last.pre.bags[last.args[1]][i]].code = NoneV

\* C12: for every pair of Errors instances a and b, after a.merge(b) the items
\* of a are a's previous items followed by b's items in order, and the item
\* sequence of b is the same as before the call.
C12_Merge ==
    (last.op = "merge") =>
        LET a == last.args[1]
            b == last.args[2]
        IN  /\ ~last.raised
            /\ bags[a] = last.pre.bags[a] \o last.pre.bags[b]
            /\ bags[b] = last.pre.bags[b]

\* C12 as amended: the same for every pair of different Errors objects a and
\* b, with no other container and no item changed; a.merge(a) appends a's
\* previous items to a itself.
C12_MergeDistinct ==
    (last.op = "merge") =>
        LET a == last.args[1]
            b == last.args[2]
        IN  /\ ~last.raised
            /\ bags[a] = last.pre.bags[a] \o last.pre.bags[b]
            /\ a # b => bags[b] = last.pre.bags[b]
            /\ \A x \in 1..Len(last.pre.bags) : x # a => bags[x] = last.pre.bags[x]
            /\ Len(bags) = Len(last.pre.bags)
            /\ ItemsUnchanged

\* C12 happens: a non-empty container was merged into a different non-empty
\* container, which grew by its items.
C12_Witness ==
    /\ last.op = "merge" /\ last.args[1] # last.args[2]
    /\ Len(last.pre.bags[last.args[1]]) > 0
    /\ Len(last.pre.bags[last.args[2]]) > 0
    /\ Len(bags[last.args[1]]) =
          Len(last.pre.bags[last.args[1]]) + Len(last.pre.bags[last.args[2]])
    /\ bags[last.args[2]] = last.pre.bags[last.args[2]]

\* the fallback message of an ApiError object without errors
FallbackMessage(a) ==
    IF apis[a].cls = "ApiError" THEN "exceptions.ApiError" ELSE "errors.UserError"

\* C13: at every moment, for every ApiError or subclass instance e, e.message
\* is the message of the first item of e.errors when e.errors is non-empty and
\* otherwise "<last dotted segment of the class's module>.<class name>";
\* str(e) equals e.message.
C13_Message ==
    \A a \in 1..Len(apis) :
        LET root == bags[apis[a].errors] IN
        /\ ApiError_message(H, a) =
              (IF Len(root) > 0 THEN items[root[1]].message.s ELSE FallbackMessage(a))
        /\ ApiError_str(H, a) = ApiError_message(H, a)

\* C13 happens: a subclass instance was built over an empty Errors, its message
\* was the fallback "errors.UserError", and after an add on that container its
\* message is the added item's.
C13_Witness ==
    /\ last.op = "add" /\ ~last.raised
    /\ \E a \in 1..Len(apis) :
          /\ apis[a].cls = "UserError"
          /\ apis[a].errors = last.args[1]
          /\ Len(last.pre.bags[last.args[1]]) = 0
          /\ ApiError_message(last.pre, a) = "errors.UserError"
          /\ ApiError_message(H, a) = "a"

\* an exception whose class is named ApiError, before the last call
IsApiError(v) == v.t = "apierr" /\ last.pre.apis[v.id].cls = "ApiError"
\* the items of the Errors stored in the ApiError object v, before the last call
StoredItems(v) == last.pre.bags[last.pre.apis[v.id].errors]

\* the items of the result at the place of the i-th element of the sequence
\* are the very items stored in that element, unchanged
StoredItemsAt(i) ==
    LET own == StoredItems(Arg.l[i])
        off == Offset(last.pre, Arg.l, OuterCode, i)
    IN  /\ Len(RetRoot) >= off + Len(own)
        /\ SubSeq(RetRoot, off + 1, off + Len(own)) = own
        /\ \A k \in 1..Len(own) : items[own[k]] = last.pre.items[own[k]]

\* C14: for every exception e whose class is named ApiError and every code c,
\* normalize(e, code=c) returns the very Errors object stored in e; when e is
\* an element of a sequence being normalized, the result holds, at e's place,
\* exactly the items of e.errors in order, with their codes unchanged by c.
C14_ApiErrorPassthrough ==
    /\ (IsNormalize /\ IsApiError(Arg)) =>
          /\ ~last.raised
          /\ last.ret = last.pre.apis[Arg.id].errors
          /\ H = last.pre
    /\ (IsNormalize /\ IsSequence(Arg) /\ \E i \in 1..Len(Arg.l) : IsApiError(Arg.l[i])) =>
          /\ ~last.raised
          /\ \A i \in 1..Len(Arg.l) : IsApiError(Arg.l[i]) => StoredItemsAt(i)

\* what holds of C14: the passthrough at top level always, and in a sequence
\* whenever normalize returns; an ApiError element never makes it raise
C14_WhenReturned ==
    /\ (IsNormalize /\ IsApiError(Arg)) =>
          /\ ~last.raised
          /\ last.ret = last.pre.apis[Arg.id].errors
          /\ H = last.pre
    /\ (IsNormalize /\ IsSequence(Arg)) =>
          \A i \in 1..Len(Arg.l) : IsApiError(Arg.l[i]) =>
              /\ ~Contribution(last.pre, Arg.l[i], OuterCode).raised
              /\ ~last.raised => StoredItemsAt(i)

\* the field values of the items of the container b over the heaps h, in order
Content(h, b) == [i \in 1..Len(h.bags[b]) |-> Fields(h.items[h.bags[b][i]])]

\* the containers built at the start, which the caller holds
CallerBags == {1, 2}

\* C15: after e = ApiError(x, code=c) no object other than e holds a reference
\* to the Errors stored in e: the stored container is one the constructor
\* made, not x nor the container of another ApiError; and no later add,
\* extend, merge or normalize_codes on a container the caller holds changes
\* e.errors or e.message of any ApiError object.
C15_ExclusiveOwnership ==
    /\ (last.op = "ApiError" /\ ~last.raised) =>
          apis[last.ret].errors > Len(last.pre.bags)
    /\ (last.op \in {"add", "extend", "merge", "normalize_codes"}
          /\ last.args[1] \in CallerBags) =>
          \A a \in 1..Len(last.pre.apis) :
              /\ Content(H, apis[a].errors) = Content(last.pre, apis[a].errors)
              /\ ApiError_message(H, a) = ApiError_message(last.pre, a)

\* an instance of a subclass of ApiError, before the last call
IsSubclassInstance(v) == v.t = "apierr" /\ last.pre.apis[v.id].cls # "ApiError"

\* C16: for every instance s of a subclass of ApiError, normalize(s, code=c)
\* and a sequence containing s yield exactly the items of s.errors, all of
\* them with their field, code, item and meta, as for a direct ApiError.
C16_SubclassLikeApiError ==
    /\ (IsNormalize /\ IsSubclassInstance(Arg)) =>
          /\ ~last.raised
          /\ RetRoot = StoredItems(Arg)
          /\ Content(H, last.ret) = Content(last.pre, last.pre.apis[Arg.id].errors)
    /\ (IsNormalize /\ IsSequence(Arg) /\ ~last.raised) =>
          \A i \in 1..Len(Arg.l) : IsSubclassInstance(Arg.l[i]) => StoredItemsAt(i)

\* the failure records a validation error exposes: those its accessor
\* errors() returns
Exposed(v) == IF v.callable THEN v.recs ELSE <<>>

\* a record whose msg is present and non-empty
NonEmptyMsg(rec) == Has(rec, "msg") /\ Get(rec, "msg") # Str("")

\* the field C17 expects for a record: its loc segments joined by "."
ExpectedField(rec) ==
    CASE rec = Rec1 -> Str("body.0.name")
      [] rec = Rec2 -> NoneV
      [] rec = RecNoMsg -> Str("field")
      [] rec = RecEmptyMsg -> Str("age")

ExpectedPayload(v) ==
    CASE v.args = <<Num(400), Str("bad")>> -> Str("bad")
      [] v.args = <<Num(400), Kw2("message", Str("m"), "code", Num(0))>> ->
             Kw2("message", Str("m"), "code", Num(0))
      [] v.args = <<Num(400), List(<<Str("x"), Str("y")>>)>> -> Str("['x', 'y']")
      [] v.args = <<Kw1("msg", Str("g"))>> -> Kw1("msg", Str("g"))
      [] v.args = <<Str("only")>> -> Str("only")
      [] v.args = <<Num(404)>> -> Str("404")
      [] v.args = <<Num(400), NoneV>> -> Str("None")
      [] v.args = <<Num(400), Kw1("message", Num(5))>> -> Kw1("message", Num(5))
      [] v.args = <<Num(400), Kw1("data", List(<<Str("x")>>)), Str("extra")>> ->
             Kw1("data", List(<<Str("x")>>))
      [] v.args = <<Num(400), List(<<HttpErr(<<Num(400), Str("bad")>>, "bad")>>)>> ->
             Str("[HttpError(400, 'bad')]")
      [] v.args = <<>> -> Str(v.s)

\* the items of a returned container, each with all its state
WholeItems(r) == [i \in 1..Len(r.h.bags[r.ret]) |-> r.h.items[r.h.bags[r.ret][i]]]

NonEmpty(v) == v \notin {NoneV, Str(""), Num(0), EmptyDict, List(<<>>), Tuple(<<>>)}

ItemKeys == {"message", "msg", "field", "code", "item", "meta"}

C20_WitnessNotMapping ==
    /\ IsNormalize /\ ~last.raised
    /\ Arg = Kw2("meta", Str("x"), "hint", Str("h"))
    /\ RetItem(1).meta = EmptyDict

\* the last call is add; its receiver and its arguments
IsAdd == last.op = "add"
AddBag == last.args[1]
AddArg == last.args[2]

\* the call appended exactly the item new to the receiver and touched no
\* other container and no item that existed
AppendedOnly(new) ==
    /\ bags[AddBag] = Append(last.pre.bags[AddBag], new)
    /\ Len(bags) = Len(last.pre.bags)
    /\ \A o \in 1..Len(bags) : o # AddBag => bags[o] = last.pre.bags[o]
    /\ \A i \in 1..Len(last.pre.items) : items[i] = last.pre.items[i]
    /\ apis = last.pre.apis

\* the new last element is an item made by the call from the arguments
BuiltFromArgs ==
    LET new == bags[AddBag][Len(bags[AddBag])] IN
    /\ new = Len(last.pre.items) + 1
    /\ Len(items) = new
    /\ AppendedOnly(new)
    /\ Fields(items[new]) = [message |-> AddArg.message, field |-> AddArg.field,
                             code |-> AddArg.code, item |-> AddArg.item,
                             meta |-> AddArg.meta]

\* C21: for every Errors e and every argument x, e.add(x, field=f, code=c,
\* item=i, **meta) returns with e one longer, the previous items unchanged in
\* their positions and nothing else touched; if x is an ErrorItem the new last
\* element is that same object, unchanged by the keyword arguments, otherwise
\* it is a new item built from x with field f, code c, item i and the meta.
C21_Add ==
    IsAdd =>
        /\ ~last.raised
        /\ IF AddArg.message.t = "item"
           THEN AppendedOnly(AddArg.message.id) /\ Len(items) = Len(last.pre.items)
           ELSE BuiltFromArgs

\* what holds of C21: it holds when x is an ErrorItem or a string; for any
\* other x add raises and leaves every object as it was
C21_WhenStrOrItem ==
    IsAdd =>
        IF AddArg.message.t = "item"
        THEN ~last.raised /\ AppendedOnly(AddArg.message.id)
                          /\ Len(items) = Len(last.pre.items)
        ELSE IF AddArg.message.t = "str"
        THEN ~last.raised /\ BuiltFromArgs
        ELSE last.raised /\ H = last.pre

(***************************************************************************)
(* scripts/workflow/domain/version.py: version strings.  A string is the   *)
(* sequence of its characters.                                             *)
(***************************************************************************)

DigitChars == <<"0", "1", "2", "3", "4", "5", "6", "7", "8", "9">>

\* the digit a character stands for, or -1 if it is no digit
DigitOf(ch) ==
    IF \E d \in 1..10 : DigitChars[d] = ch
    THEN (CHOOSE d \in 1..10 : DigitChars[d] = ch) - 1
    ELSE -1

\* str.split("."): the pieces between the dots, empty pieces included
RECURSIVE SplitFrom(_, _, _)
SplitFrom(str, sep, piece) ==
    IF Len(str) = 0 THEN <<piece>>
    ELSE IF Head(str) = sep THEN <<piece>> \o SplitFrom(Tail(str), sep, <<>>)
    ELSE SplitFrom(Tail(str), sep, Append(piece, Head(str)))

split(str, sep) == SplitFrom(str, sep, <<>>)

\* int(text) accepts an optional minus sign followed by one or more digits
IsIntText(text) ==
    LET body == IF Len(text) > 0 /\ Head(text) = "-" THEN Tail(text) ELSE text IN
    /\ Len(body) > 0
    /\ \A i \in 1..Len(body) : DigitOf(body[i]) >= 0

RECURSIVE DigitsValue(_, _)
DigitsValue(body, acc) ==
    IF Len(body) = 0 THEN acc
    ELSE DigitsValue(Tail(body), 10 * acc + DigitOf(Head(body)))

\* int(text) for a text it accepts
IntOf(text) ==
    IF Head(text) = "-" THEN 0 - DigitsValue(Tail(text), 0) ELSE DigitsValue(text, 0)

\* str(n) of an integer: its decimal digits, after a minus sign if negative
RECURSIVE DigitsOfNat(_)
DigitsOfNat(n) ==
    IF n < 10 THEN <<DigitChars[n + 1]>>
    ELSE Append(DigitsOfNat(n \div 10), DigitChars[(n % 10) + 1])

StrOfInt(n) == IF n < 0 THEN <<"-">> \o DigitsOfNat(0 - n) ELSE DigitsOfNat(n)

\* f"{a}.{b}.{c}"
FormatVersion(a, b, c) == StrOfInt(a) \o <<".">> \o StrOfInt(b) \o <<".">> \o StrOfInt(c)

\* the outcome of a function of version.py: a value or a ValueError
Returned(v) == [raised |-> FALSE, ret |-> v]
ValueError == [raised |-> TRUE, ret |-> NoneV]

\* version.parse_version
parse_version(version) ==
    LET version_parts == split(version, ".") IN
    IF Len(version_parts) # 3 THEN ValueError
    ELSE IF \A i \in 1..3 : IsIntText(version_parts[i])
    THEN Returned([i \in 1..3 |-> IntOf(version_parts[i])])
    ELSE ValueError

\* version.validate_version_format
validate_version_format(version) == ~parse_version(version).raised

\* a member of the enumeration BumpType
BumpType(value) == [t |-> "BumpType", value |-> value]

\* "bump_type.value if isinstance(bump_type, BumpType) else bump_type"
bump_str(bump_type) == IF bump_type.t = "BumpType" THEN Str(bump_type.value) ELSE bump_type

\* a bug: the minor bump keeps the patch number
bump_minor_keeping_patch(major, minor, patch) == FormatVersion(major, minor + 1, patch)

\* case BumpType.MINOR.value: return f"{major}.{minor + 1}.0"
bump_minor(major, minor, patch) == FormatVersion(major, minor + 1, 0)

\* version.calculate_next_version
calculate_next_version(current_version, bump_type) ==
    LET next(parsed) ==
            IF parsed.raised THEN ValueError
            ELSE LET major == parsed.ret[1]
                     minor == parsed.ret[2]
                     patch == parsed.ret[3]
                 IN  CASE bump_str(bump_type) = Str("patch") ->
                              Returned(FormatVersion(major, minor, patch + 1))
                       [] bump_str(bump_type) = Str("minor") ->
                              Returned(bump_minor(major, minor, patch))
                       [] bump_str(bump_type) = Str("major") ->
                              Returned(FormatVersion(major + 1, 0, 0))
                       [] OTHER -> ValueError
    IN  next(parse_version(current_version))

(***************************************************************************)
(* SpecVersion: one call of calculate_next_version on a version string     *)
(* and a bump type drawn at the start.                                     *)
(***************************************************************************)

MaxParts == 4     \* SpecVersion: pieces between dots in a version string

\* the pieces the version strings are put together from
VersionPieces ==
    {<<"0">>, <<"1">>, <<"9">>, <<"1", "0">>, <<"0", "1">>, <<"-", "1">>, <<"x">>, <<>>}

\* ".".join(pieces)
RECURSIVE JoinPieces(_)
JoinPieces(pieces) ==
    IF Len(pieces) = 0 THEN <<>>
    ELSE IF Len(pieces) = 1 THEN pieces[1]
    ELSE pieces[1] \o <<".">> \o JoinPieces(Tail(pieces))

VersionStrings == {JoinPieces(p) : p \in SeqsUpTo(VersionPieces, MaxParts)}

BumpInputs == {Str("patch"), Str("minor"), Str("major"), Str("Patch"),
               BumpType("patch"), BumpType("major"), NoneV}

InitVersion ==
    \E version \in VersionStrings, bump_type \in BumpInputs :
        /\ Built(Heap(<<>>, <<>>, <<>>))
        /\ last = [op |-> "init", n |-> 0, args |-> <<version, bump_type>>]

CalculateNextVersionCall ==
    LET done(r) == /\ Commit(H)
                   /\ last' = [op |-> "calculate_next_version", n |-> 1,
                                args |-> last.args, raised |-> r.raised,
                                ret |-> r.ret]
    IN  /\ last.op = "init"
        /\ done(calculate_next_version(last.args[1], last.args[2]))

NextVersion == CalculateNextVersionCall

SpecVersion == InitVersion /\ [][NextVersion]_vars

\* the integer a piece of a version string denotes
PieceValue(piece) ==
    CASE piece = <<"0">> -> 0
      [] piece = <<"1">> -> 1
      [] piece = <<"9">> -> 9
      [] piece = <<"1", "0">> -> 10
      [] piece = <<"0", "1">> -> 1
      [] piece = <<"-", "1">> -> -1

IntegerPieces == {<<"0">>, <<"1">>, <<"9">>, <<"1", "0">>, <<"0", "1">>, <<"-", "1">>}

\* the decimal numeral of a number
Numeral(n) ==
    CASE n = 0 -> <<"0">>
      [] n = 1 -> <<"1">>
      [] n = 2 -> <<"2">>
      [] n = 9 -> <<"9">>
      [] n = 10 -> <<"1", "0">>
      [] n = 11 -> <<"1", "1">>

\* X.Y.Z
Dotted(x, y, z) == Numeral(x) \o <<".">> \o Numeral(y) \o <<".">> \o Numeral(z)

\* (a, b, c) < (x, y, z) in lexicographic order
TripleLess(p, q) ==
    \/ p[1] < q[1]
    \/ p[1] = q[1] /\ p[2] < q[2]
    \/ p[1] = q[1] /\ p[2] = q[2] /\ p[3] < q[3]

IsCalculate == last.op = "calculate_next_version"

\* the version given to the last call is X.Y.Z for three pieces out of P
ThreePieces(P) ==
    \E x \in P, y \in P, z \in P : last.args[1] = JoinPieces(<<x, y, z>>)

\* the three numbers of the version given to the last call
Triple ==
    LET p == CHOOSE p \in IntegerPieces \X IntegerPieces \X IntegerPieces :
                 last.args[1] = JoinPieces(p)
    IN  <<PieceValue(p[1]), PieceValue(p[2]), PieceValue(p[3])>>

BumpName ==
    IF last.args[2] \in {Str("patch"), BumpType("patch")} THEN "patch"
    ELSE IF last.args[2] \in {Str("minor"), BumpType("minor")} THEN "minor"
    ELSE IF last.args[2] \in {Str("major"), BumpType("major")} THEN "major"
    ELSE "other"

\* C22: for a version X.Y.Z of three non-negative integers,
\* calculate_next_version returns X.Y.(Z+1) for patch, X.(Y+1).0 for minor and
\* (X+1).0.0 for major; the result satisfies validate_version_format and
\* parses to a triple lexicographically greater than the current one; a
\* version that is not exactly three integer parts, or any other bump type,
\* raises ValueError.
C22_VersionBump ==
    IsCalculate =>
        /\ (~ThreePieces(IntegerPieces) \/ BumpName = "other") => last.raised
        /\ (ThreePieces(IntegerPieces \ {<<"-", "1">>}) /\ BumpName # "other") =>
              LET bumped(t) ==
                      /\ ~last.raised
                      /\ last.ret = CASE BumpName = "patch" -> Dotted(t[1], t[2], t[3] + 1)
                                       [] BumpName = "minor" -> Dotted(t[1], t[2] + 1, 0)
                                       [] BumpName = "major" -> Dotted(t[1] + 1, 0, 0)
                      /\ validate_version_format(last.ret)
                      /\ TripleLess(t, parse_version(last.ret).ret)
              IN  bumped(Triple)

\* C22 happens: the minor bump of 9.9.10 gave 9.10.0
C22_Witness ==
    /\ IsCalculate /\ ~last.raised
    /\ last.args = << <<"9", ".", "9", ".", "1", "0">>, Str("minor") >>
    /\ last.ret = <<"9", ".", "1", "0", ".", "0">>

(***************************************************************************)
(* scripts/workflow/infrastructure/config_manager.py: ConfigManager over   *)
(* one configuration file.  A path is the sequence of its characters; the  *)
(* file, when it exists, holds the JSON object that save wrote.            *)
(***************************************************************************)

\* the current working directory
Cwd == <<"/", "w">>

\* a pathlib.Path, and a str, each with its characters
Path(chars) == [t |-> "path", chars |-> chars]
Text(chars) == [t |-> "str", chars |-> chars]

\* Path.resolve(): an absolute path stays, a relative one is put under the
\* current working directory
resolve(path) ==
    IF Head(path.chars) = "/" THEN path ELSE Path(Cwd \o <<"/">> \o path.chars)

\* str(path)
str_of_path(path) == Text(path.chars)

\* ConfigData(env_root=..., target_path=...)
ConfigData(env_root, target_path) == [env_root |-> env_root, target_path |-> target_path]

\* ConfigManager.load
load(file) ==
    IF file = NoFile THEN ConfigData(NoneV, NoneV)
    ELSE ConfigData(Get(file, "env_root"), Get(file, "target_path"))

\* ConfigManager.save: the file after json.dumps(asdict(config))
save(config) ==
    Dict(<< <<"env_root", config.env_root>>, <<"target_path", config.target_path>> >>)

\* "if config.env_root: return Path(config.env_root)" and "return None"
path_or_none(value) ==
    IF value # NoneV /\ Len(value.chars) > 0 THEN Path(value.chars) ELSE NoneV

\* ConfigManager.get_env_root
get_env_root(file) == path_or_none(load(file).env_root)

\* ConfigManager.get_target_path
get_target_path(file) == path_or_none(load(file).target_path)

\* a bug: the file is written from a fresh ConfigData instead of the loaded one
set_env_root_fresh(file, env_root) ==
    save(ConfigData(str_of_path(resolve(env_root)), NoneV))

\* ConfigManager.set_env_root
set_env_root(file, env_root) ==
    save([load(file) EXCEPT !.env_root = str_of_path(resolve(env_root))])

\* ConfigManager.set_target_path
set_target_path(file, target_path) ==
    save([load(file) EXCEPT !.target_path = str_of_path(resolve(target_path))])

\* "if config.env_root is None and config.target_path is None:
\*      self.config_file.unlink(missing_ok=True)
\*  else: self.save(config)"
unlink_or_save(config) ==
    IF config.env_root = NoneV /\ config.target_path = NoneV THEN NoFile
    ELSE save(config)

\* ConfigManager.clear_env_root
clear_env_root(file) == unlink_or_save([load(file) EXCEPT !.env_root = NoneV])

\* ConfigManager.clear_target_path
clear_target_path(file) == unlink_or_save([load(file) EXCEPT !.target_path = NoneV])

\* ConfigManager.clear
clear(file) == NoFile

(***************************************************************************)
(* SpecConfig: one ConfigManager over a file that is missing at the start, *)
(* its operations called one at a time.                                    *)
(***************************************************************************)

MaxOps == 3     \* SpecConfig: calls made on the ConfigManager

\* the paths given to set_env_root and set_target_path
ConfigPaths == {Path(<<"/", "a">>), Path(<<"/", "b">>), Path(<<"r">>)}

InitConfig ==
    /\ items = <<>>
    /\ bags = <<>>
    /\ apis = <<>>
    /\ env = NoEnv
    /\ last = [op |-> "init", n |-> 0]

\* a call of the ConfigManager that leaves the file as written and returns ret
ConfigCall(op, args, written, ret) ==
    /\ last.n < MaxOps
    /\ UNCHANGED <<items, bags, apis>>
    /\ env' = [env EXCEPT !.config_file = written]
    /\ last' = [op |-> op, args |-> args, pre |-> env.config_file, ret |-> ret,
                 n |-> last.n + 1]

SetEnvRootCall ==
    \E p \in ConfigPaths :
        ConfigCall("set_env_root", <<p>>, set_env_root(env.config_file, p), NoneV)

SetTargetPathCall ==
    \E p \in ConfigPaths :
        ConfigCall("set_target_path", <<p>>, set_target_path(env.config_file, p), NoneV)

ClearEnvRootCall ==
    ConfigCall("clear_env_root", <<>>, clear_env_root(env.config_file), NoneV)

ClearTargetPathCall ==
    ConfigCall("clear_target_path", <<>>, clear_target_path(env.config_file), NoneV)

ClearCall == ConfigCall("clear", <<>>, clear(env.config_file), NoneV)

GetEnvRootCall ==
    ConfigCall("get_env_root", <<>>, env.config_file, get_env_root(env.config_file))

GetTargetPathCall ==
    ConfigCall("get_target_path", <<>>, env.config_file, get_target_path(env.config_file))

NextConfig ==
    \/ SetEnvRootCall
    \/ SetTargetPathCall
    \/ ClearEnvRootCall
    \/ ClearTargetPathCall
    \/ ClearCall
    \/ GetEnvRootCall
    \/ GetTargetPathCall

SpecConfig == InitConfig /\ [][NextConfig]_vars

\* the path a set call stores: the given path, made absolute
Stored(p) ==
    CASE p.chars = <<"/", "a">> -> Path(<<"/", "a">>)
      [] p.chars = <<"/", "b">> -> Path(<<"/", "b">>)
      [] p.chars = <<"r">> -> Path(<<"/", "w", "/", "r">>)

\* what the two getters return now, and what they returned before the last call
EnvRootNow == get_env_root(env.config_file)
TargetPathNow == get_target_path(env.config_file)
EnvRootBefore == get_env_root(last.pre)
TargetPathBefore == get_target_path(last.pre)

Relating == {"__add__", "__sub__", "filter_by", "merge", "ApiError"}

\* C24: when two containers are related by r = a + b, r = a - b,
\* r = a.filter_by(...), a.merge(b) or e = ApiError(a), a call of
\* normalize_codes on one container changes the code of no item that a
\* different container holds.
C24_NoAliasing ==
    (last.op = "normalize_codes" /\ last.prev \in Relating) =>
        \A o \in BagIds \ {last.args[1]} :
            \A i \in 1..Len(bags[o]) :
                items[bags[o][i]].code = last.pre.items[bags[o][i]].code

\* the HTTP errors normalize meets in its input: the input itself or the
\* elements of the input sequence
HttpErrorsMet ==
    IF Arg.t = "httperr" THEN {Arg}
    ELSE IF IsSequence(Arg) THEN {Arg.l[i] : i \in {i \in 1..Len(Arg.l) : Arg.l[i].t = "httperr"}}
    ELSE {}

\* C25: the nested calls of normalize that a call of normalize makes are at
\* most one deep whatever the input, so that every call comes to an end: the
\* payload of an HTTP error is a string or a mapping, for which normalize
\* makes no nested call, and an element of a sequence that is itself a list
\* or tuple is not normalized as a sequence but gives one item.
C25_BoundedRecursion ==
    IsNormalize =>
        /\ reentries(last.pre, Arg) <= 1
        /\ reentries(last.pre, Arg) = (IF HttpErrorsMet = {} THEN 0 ELSE 1)
        /\ \A x \in HttpErrorsMet :
              /\ extract_http_error_payload(last.pre, x).t \in {"str", "dict"}
              /\ reentries(last.pre, extract_http_error_payload(last.pre, x)) = 0
        /\ (IsSequence(Arg) /\ ~last.raised) =>
              \A i \in 1..Len(Arg.l) : IsSequence(Arg.l[i]) =>
                  Len(ResultItems(Contribution(last.pre, Arg.l[i], OuterCode))) = 1

\* C25 happens: an HTTP error whose payload is a list holding another HTTP
\* error was normalized with one nested call, giving one item for the list.
C25_Witness ==
    /\ IsNormalize /\ ~last.raised
    /\ Arg.t = "httperr" /\ Len(Arg.args) = 2 /\ Arg.args[2].t = "list"
    /\ Arg.args[2].l[1].t = "httperr"
    /\ reentries(last.pre, Arg) = 1
    /\ Len(RetRoot) = 1
    /\ RetItem(1).message = Str("[HttpError(400, 'bad')]")

\* the items of the container b are, in order, field for field those of the
\* container a returned result r holds
RoundTrip(b, r) ==
    /\ ~r.raised
    /\ Len(r.h.bags[r.ret]) = Len(bags[b])
    /\ \A i \in 1..Len(bags[b]) :
          Fields(r.h.items[r.h.bags[r.ret][i]]) = Fields(items[bags[b][i]])

\* C26: for every Errors e, each combination of exclude_unset and
\* exclude_none and every outer code c, normalize(e.to_dict(exclude_unset,
\* exclude_none), code=c) has as many items as e, in the same order, each
\* equal to its item of e in message, field, code, item and meta.
C26_RoundTrip ==
    (last.op = "to_dict" /\ ~last.raised) =>
        \A c \in Codes : RoundTrip(last.args[1], normalize(H, last.ret, c))

\* C26 happens: a container holding an item built by add whose meta holds a
\* None was dumped with both flags set, and the dump normalized under the
\* outer code 500 gave the items back, that one with its code 0 and its meta
C26_Witness ==
    /\ last.op = "to_dict" /\ ~last.raised
    /\ last.prev = "add"
    /\ last.args[2] /\ last.args[3]
    /\ \E i \in 1..Len(bags[last.args[1]]) :
          LET e == items[bags[last.args[1]][i]] IN
          e.code = Num(0) /\ e.meta = Kw2("k", Num(1), "z", NoneV)
    /\ RoundTrip(last.args[1], normalize(H, last.ret, Num(500)))

\* the last call normalized a list or tuple of one element that is not
\* itself a list or tuple
IsSingleton == IsNormalize /\ IsSequence(Arg) /\ Len(Arg.l) = 1 /\ ~IsSequence(Arg.l[1])

\* the call did what the call r did: it raised if r raised, and otherwise
\* returned the same items in the same order
SameOutcome(r) ==
    /\ last.raised = r.raised
    /\ ~last.raised =>
          SameItems(last.pre, ResultItems([h |-> H, ret |-> last.ret]), ResultItems(r))

\* C27: for every value x that is not a list or tuple (string, number, None,
\* dict or any other mapping, ErrorItem, Errors, ApiError, validation error,
\* HTTP error, other exception, arbitrary object) and every code c,
\* normalize([x], code=c) has exactly the items of normalize(x, code=c), in
\* the same order.
C27_ElementLikeTopLevel ==
    IsSingleton => SameOutcome(normalize(last.pre, Arg.l[1], OuterCode))

\* what holds of C27: it holds for every x that is not a mapping other than
\* a dict
C27_ExceptMappings ==
    (IsSingleton /\ Arg.l[1].t # "mapping") =>
        SameOutcome(normalize(last.pre, Arg.l[1], OuterCode))

\* the codes of the items ids, in order, in the heap h
CodesOf(h, ids) == [k \in 1..Len(ids) |-> h.items[ids[k]].code]

\* an input that already holds items: an ErrorItem, an Errors, an ApiError
Structured(v) == v.t \in {"item", "errors", "apierr"}

\* the codes found in a structured input before the last call
CodesFound(v) ==
    CASE v.t = "item" -> <<last.pre.items[v.id].code>>
      [] v.t = "errors" -> CodesOf(last.pre, last.pre.bags[v.id])
      [] v.t = "apierr" -> CodesOf(last.pre, StoredItems(v))

\* the items of the result at the place of the i-th element of the sequence
\* carry the codes found in that element
CodesKeptAt(i) ==
    LET found == CodesFound(Arg.l[i])
        off == Offset(last.pre, Arg.l, OuterCode, i)
    IN  /\ Len(RetRoot) >= off + Len(found)
        /\ CodesOf(H, SubSeq(RetRoot, off + 1, off + Len(found))) = found

\* a mapping with a "data" list or tuple
HasDataList(m) ==
    m.t \in {"dict", "mapping"} /\ Has(m, "data") /\ IsSequence(Get(m, "data"))

\* the codes of the items normalize derived from the structured inputs v
\* for which Covered(v) holds are the codes found in the input
KeepsCodes(Covered(_)) ==
    /\ (IsNormalize /\ ~last.raised /\ Structured(Arg) /\ Covered(Arg)) =>
          CodesOf(H, RetRoot) = CodesFound(Arg)
    /\ (IsNormalize /\ ~last.raised /\ IsSequence(Arg)) =>
          \A i \in 1..Len(Arg.l) :
              (Structured(Arg.l[i]) /\ Covered(Arg.l[i])) => CodesKeptAt(i)
    /\ (IsNormalize /\ ~last.raised /\ Arg.t = "valerr") =>
          \A i \in 1..Len(RetRoot) : RetItem(i).code = NoneV
    /\ (IsNormalize /\ ~last.raised /\ HasDataList(Arg)) =>
          LET data == Get(Arg, "data").l IN
          /\ Len(RetRoot) = Len(data)
          /\ \A i \in 1..Len(data) :
                /\ data[i].t = "dict" => RetItem(i).code = Get(data[i], "code")
                /\ data[i].t \notin {"dict", "mapping"} => RetItem(i).code = OuterCode

\* the outer code is the code of the items built from strings, generic
\* exceptions, fallback values and generic mappings without a code key
OuterCodeAssigned ==
    (IsNormalize /\ ~last.raised) =>
        /\ Arg.t \in {"str", "exc", "obj", "int", "none", "bool"} =>
              \A i \in 1..Len(RetRoot) : RetItem(i).code = OuterCode
        /\ (GenericMapping(Arg) /\ ~Has(Arg, "code")) =>
              \A i \in 1..Len(RetRoot) : RetItem(i).code = OuterCode
        /\ (Arg.t \in {"dict", "mapping"} /\ ~Has(Arg, "data") /\ Has(Arg, "description")) =>
              \A i \in 1..Len(RetRoot) : RetItem(i).code = OuterCode

AnyClass(v) == TRUE
ExactClass(v) == v.t = "apierr" => IsApiError(v)

\* C28: for every outer code c, the items that normalize derives from an
\* ErrorItem, an Errors, an ApiError, a mapping element of a "data" list or
\* a validation error carry exactly the code found in the input (none for
\* every validation-error record), and c is the code of the items built from
\* strings, description entries, non-mapping "data" elements, generic
\* mappings without a code key, generic exceptions and fallback values.
C28_OuterCodeScope == KeepsCodes(AnyClass) /\ OuterCodeAssigned

\* what holds of C28: the same, for every ApiError whose class is named
\* ApiError
C28_ExceptSubclasses == KeepsCodes(ExactClass) /\ OuterCodeAssigned

----------------------------------------------------------------------------
(* The push commands of the workflow tool.  The log is what a run shows    *)
(* and does, in order: the panels printed by the steps and the shell       *)
(* commands given to the runner.  The world w is what the run meets: the   *)
(* state of git, what there is to push, and how each command ends.         *)

\* the outcome of a step: the log so far, and the value returned or the
\* exception raised
Done(log, ret) == [log |-> log, raised |-> FALSE, ret |-> ret]
Threw(log, exc) == [log |-> log, raised |-> TRUE, exc |-> exc]

\* WorkflowRunner.run_command with check=False: the command is run, its
\* failure is caught, and the result's success is returned
run_command(log, command, success) == Done(Append(log, command), success)

\* git.get_current_branch, run in the working directory of the process
get_current_branch(w) ==
    CASE w.git = "ok" -> Done(<<>>, "main")
      [] w.git = "norepo" -> Threw(<<>>, "RuntimeError")
      [] w.git = "missing" -> Threw(<<>>, "FileNotFoundError")

\* git.count_commits_to_push(branch)
count_commits_to_push(w) == IF w.git = "ok" THEN w.commits ELSE 0

\* git.get_unpushed_tags
get_unpushed_tags(w) ==
    CASE w.git = "ok" -> Done(<<>>, w.tags)
      [] w.git = "norepo" -> Done(<<>>, <<>>)
      [] w.git = "missing" -> Threw(<<>>, "FileNotFoundError")

\* push.push_commits
push_commits(w, log, force, check_first) ==
    LET shown == Append(log, "Push Commits")
        push_cmd == IF force THEN "git push --force" ELSE "git push"
        pushed == run_command(shown, push_cmd, w.git # "missing" /\ w.push_ok)
    IN  IF check_first /\ ~force
        THEN IF get_current_branch(w).raised
             THEN Threw(shown, get_current_branch(w).exc)
             ELSE IF count_commits_to_push(w) = 0 THEN Done(shown, TRUE)
             ELSE pushed
        ELSE pushed

\* push.push_tags_only
push_tags_only(w, log, check_first) ==
    LET shown == Append(log, "Push Tags")
        pushed == run_command(shown, "git push --tags", w.git # "missing" /\ w.tags_ok)
    IN  IF check_first
        THEN IF get_unpushed_tags(w).raised
             THEN Threw(shown, get_unpushed_tags(w).exc)
             ELSE IF Len(get_unpushed_tags(w).ret) = 0 THEN Done(shown, TRUE)
             ELSE pushed
        ELSE pushed

\* push.push_all
push_all(w, log, force, check_first) ==
    LET tags_step(commits) ==
            LET tags == push_tags_only(w, commits.log, check_first) IN
            IF tags.raised THEN tags
            ELSE Done(tags.log, commits.ret /\ tags.ret)
        commits_step(commits) ==
            IF commits.raised THEN commits ELSE tags_step(commits)
    IN  commits_step(push_commits(w, Append(log, "Push All"), force, check_first))

\* push.push_command
push_command(w, log, tags_only, force, skip_check) ==
    IF force /\ ~tags_only /\ ~w.confirm THEN Done(log, FALSE)
    ELSE IF tags_only THEN push_tags_only(w, log, ~skip_check)
    ELSE push_all(w, log, force, ~skip_check)

\* the three commands of check.run_ruff_check without fix
RuffCommands == <<"uv run ruff --version", "uv run ruff check src/",
                  "uv run ruff format --check src/">>

\* the parameters of check.check_command
CheckCommandParameters == {"project_root", "ruff", "pyright", "tests", "fix"}

\* check.check_command called with the keywords given, pyright and tests off
check_command(w, log, keywords, ruff) ==
    IF ~(keywords \subseteq CheckCommandParameters) THEN Threw(log, "TypeError")
    ELSE IF ruff THEN Done(log \o RuffCommands, w.ruff_ok)
    ELSE Done(log, TRUE)

\* cli._run_validation
run_validation(w, log, ruff) ==
    check_command(w, log, {"ruff", "pyright", "tests", "fix", "target_path"}, ruff)

\* cli.push
push(w, log, tags_only, force, skip_check, validate) ==
    LET pushing(l) ==
            LET ended(p) ==
                    IF p.raised THEN p
                    ELSE IF ~p.ret THEN Threw(p.log, "Exit")
                    ELSE Done(p.log, NoneV)
            IN  ended(push_command(w, l, tags_only, force, skip_check))
        validated(v) ==
            IF v.raised THEN v
            ELSE IF ~v.ret THEN Threw(v.log, "Exit")
            ELSE pushing(v.log)
    IN  IF ~w.project THEN Threw(log, "Exit")
        ELSE IF validate /\ ~force THEN validated(run_validation(w, log, TRUE))
        ELSE pushing(log)

\* what a run can meet
Worlds ==
    [git : {"ok", "norepo", "missing"}, commits : 0..1, tags : {<<>>, <<"v1">>},
     push_ok : BOOLEAN, tags_ok : BOOLEAN, ruff_ok : BOOLEAN, confirm : BOOLEAN,
     project : BOOLEAN]

\* the options of a call
PushOptions ==
    [tags_only : BOOLEAN, force : BOOLEAN, skip_check : BOOLEAN, validate : BOOLEAN]

InitPush ==
    /\ Built(Heap(<<>>, <<>>, <<>>))
    /\ \E w \in Worlds, o \in PushOptions :
           last = [op |-> "init", n |-> 0, args |-> o, world |-> w]

\* a call on the drawn world and options: the log is what the call left
PushStep(op, out) ==
    /\ last.op = "init"
    /\ UNCHANGED <<items, bags, apis>>
    /\ env' = [env EXCEPT !.log = out.log]
    /\ last' = [op |-> op, n |-> 1, args |-> last.args, world |-> last.world,
                 out |-> out]

PushCommitsCall ==
    PushStep("push_commits",
             push_commits(last.world, env.log, last.args.force, ~last.args.skip_check))

PushTagsOnlyCall ==
    PushStep("push_tags_only",
             push_tags_only(last.world, env.log, ~last.args.skip_check))

PushAllCall ==
    PushStep("push_all",
             push_all(last.world, env.log, last.args.force, ~last.args.skip_check))

PushCommandCall ==
    PushStep("push_command",
             push_command(last.world, env.log, last.args.tags_only, last.args.force,
                          last.args.skip_check))

PushCall ==
    PushStep("push",
             push(last.world, env.log, last.args.tags_only, last.args.force,
                  last.args.skip_check, last.args.validate))

NextPush ==
    \/ PushCommitsCall
    \/ PushTagsOnlyCall
    \/ PushAllCall
    \/ PushCommandCall
    \/ PushCall

SpecPush == InitPush /\ [][NextPush]_vars

\* the place of the first entry x in the log, 0 when it has none
Place(log, x) ==
    IF \E i \in 1..Len(log) : log[i] = x
    THEN CHOOSE i \in 1..Len(log) : log[i] = x /\ \A j \in 1..(i - 1) : log[j] # x
    ELSE 0

\* the outcomes of the two steps of the last push_all call
CommitsStep ==
    push_commits(last.world, <<"Push All">>, last.args.force, ~last.args.skip_check)
TagsStep ==
    push_tags_only(last.world, <<>>, ~last.args.skip_check)

\* the two steps were attempted, the commit push first
BothAttempted ==
    /\ Place(env.log, "Push Commits") > 0
    /\ Place(env.log, "Push Tags") > Place(env.log, "Push Commits")

\* C29: push_all always attempts the commit push before the tag push,
\* attempts the tag push whether or not the commit push succeeded, and
\* returns True exactly when both the commit push step and the tag push
\* step returned True.
C29_PushAll ==
    last.op = "push_all" =>
        /\ BothAttempted
        /\ ~last.out.raised =>
              (last.out.ret <=> (CommitsStep.ret /\ TagsStep.ret))

\* what holds of C29: the same whenever the commit push step returns
C29_WhenCommitsStepReturns ==
    (last.op = "push_all" /\ ~CommitsStep.raised) =>
        /\ BothAttempted
        /\ ~last.out.raised =>
              (last.out.ret <=> (CommitsStep.ret /\ TagsStep.ret))

\* the git push commands
GitPushes == {"git push", "git push --force", "git push --tags"}

\* the log has the quality checks, run to their end, before its place i
ChecksRunBefore(log, i) ==
    \E k \in 1..(i - Len(RuffCommands)) :
        SubSeq(log, k, k + Len(RuffCommands) - 1) = RuffCommands

\* C30: in the push command of the CLI with validation enabled (the default,
\* without --no-validate), no git push command (commits or tags, forced or
\* not) is executed unless the quality checks were run first and passed.
C30_ValidationGatesPush ==
    (last.op = "push" /\ last.args.validate) =>
        \A i \in 1..Len(env.log) :
            env.log[i] \in GitPushes =>
                ChecksRunBefore(env.log, i) /\ last.world.ruff_ok

\* what holds of C30: with validation enabled and without --force no git push
\* command is executed unless the checks were run first and passed; the call
\* of the checks raises, so that none is executed at all
C30_WhenNotForced ==
    (last.op = "push" /\ last.args.validate /\ ~last.args.force) =>
        /\ last.out.raised
        /\ \A i \in 1..Len(env.log) : env.log[i] \notin GitPushes

====
